---- MODULE Spec2Model ----
(***************************************************************************)
(* Head/face controlled cursor (src/AlexVision.py): the sampling loop      *)
(* main_loop, the velocity controller update_velocity_constant, the        *)
(* calibration run_calibration and the consumer registry; and the loop of  *)
(* the earlier flag sender (src/cace.py).                                  *)
(*                                                                         *)
(* Specifications, each the same loop under its own inputs:                *)
(*   Spec        head movement and runtime adjustments                     *)
(*   SpecMouth   the mouth gesture: select and click                       *)
(*   SpecGesture the blink gesture: mode changes                           *)
(*   SpecBrow    the brow baseline, in main_loop and in cace.py            *)
(*   SpecCalib   calibration runs, step by step                            *)
(*   SpecAdjust  the deadzone and speed keys, load and calibration         *)
(*   SpecSettle  a constant pose fed to the calibrated controller          *)
(*   SpecBlink   the window of blink timestamps                            *)
(*   SpecLost    frames without a face, in main_loop and in cace.py        *)
(*   SpecBroadcast  broadcasts send by send, consumers coming and going    *)
(*   SpecServe   a calibration run while consumers are served              *)
(*   SpecShutdown   the quit key, the server and the end of both tasks     *)
(*   SpecRange   the deadzone and speed keys after a wide calibration      *)
(*   SpecHold    the brow hold: delete                                     *)
(*   SpecSmooth  smoothing of the yaw estimates                            *)
(*   SpecRecenter  the recenter key                                        *)
(*   SpecStartup the camera opened or not, before the first frame          *)
(*   SpecQuick   blinks in quick succession                                *)
(*   SpecClosure one closure of the eyes over several frames               *)
(*   SpecLearn   the brows raised while the baseline is learned            *)
(*                                                                         *)
(* Number representation.  The program computes with floats; the model    *)
(* uses fixed point integers and rounds every quotient to the nearest      *)
(* unit (RoundDiv), as IEEE arithmetic rounds to the nearest float.        *)
(*   time      : centiseconds          (0.01 s)                            *)
(*   angles    : decidegrees           (0.1 of the yaw/roll unit)          *)
(*   velocity  : milli-pixels / second (so 1e-3 px/s is 1)                 *)
(*   position  : milli-pixels                                              *)
(*   ratios    : hundredths (mouth/eye aspect ratio), thousandths (brow)   *)
(*   percent   : hundredths of a percent, the "%.2f" of the messages       *)
(* The time.time() reads of one loop iteration are `now` (line 594) and    *)
(* `now + lag` (lines 697 and 728, after the landmark detector has run).   *)
(***************************************************************************)
EXTENDS Integers, Sequences, FiniteSets, TLC

VARIABLES
    pc,                     \* position: "start", "frame", "send", "key", "calib", "done"; "cace" in cace.py
    clock,                  \* wall clock, time.time()
    calib, cursor_x, cursor_y, v_cmd, smoothed_yaw, smoothed_roll,
    brow_samples, brow_baseline, l_run, r_run, blink_active, blink_times,
    triple_blink_until, prev_mouth_open, prev_brow_up, prev_triple_blink,
    brow_up_start_time, brow_triggered, last_select_click_time, current_mode,
    params, prev_time, last_ws_send,
    shutdown_flag, connected_clients,
    calib_file,             \* contents of CALIB_FILE, None when it does not exist
    cal,                    \* run_calibration: its locals while it runs
    ws_task,                \* websocket_server: "serving" or "done"
    closed,                 \* registered consumers whose connection is closed
    stalled,                \* registered consumers that have stopped reading
    broadcast,              \* the broadcasts of the iteration, send by send
    out,                    \* observer: the messages broadcast by the last iteration
    obs,                    \* observer: what the controller did in the last iteration
    hist                    \* observer: blinks registered, mode changes, mouth edges so far

ctl == <<calib, cursor_x, cursor_y, v_cmd, smoothed_yaw, smoothed_roll, params>>
gest == <<brow_samples, brow_baseline, l_run, r_run, blink_active, blink_times,
          triple_blink_until, prev_mouth_open, prev_brow_up, prev_triple_blink,
          brow_up_start_time, brow_triggered, last_select_click_time, current_mode>>
net == <<ws_task, closed, stalled, broadcast>>
vars == <<pc, clock, ctl, gest, prev_time, last_ws_send, shutdown_flag,
          connected_clients, calib_file, cal, net, out, obs, hist>>

----------------------------------------------------------------------------
(* Optional values: None is the empty set, Some(x) the singleton.          *)
None == {}
Some(x) == {x}
Val(s) == CHOOSE x \in s : TRUE

Abs(x) == IF x < 0 THEN -x ELSE x
Sign(x) == IF x > 0 THEN 1 ELSE IF x < 0 THEN -1 ELSE 0
Max(a, b) == IF a >= b THEN a ELSE b
Min(a, b) == IF a <= b THEN a ELSE b
Last(s) == s[Len(s)]

\* a / b rounded to the nearest integer (b > 0)
RoundDiv(a, b) == (a + (b \div 2)) \div b

----------------------------------------------------------------------------
(* Program constants, in the model's units.                                *)
VMAX_X == 300000
VMAX_Y == 300000
DEADZONE_YAW == 100
DEADZONE_ROLL == 100
HYSTERESIS_DEG == 10
TAU_VEL == 18
YAW_SMOOTHING == 3              \* tenths
BROW_BASELINE_FRAMES == 60
BROW_UP_FACTOR == 20            \* hundredths
BROW_HOLD_TIME == 65
MOUTH_OPEN_THRESH == 38
BLINK_EAR_THRESH == 22
BLINK_MIN_FRAMES == 1
TRIPLE_BLINK_WINDOW == 120
TRIPLE_BLINK_HOLD == 20
WS_UPDATE_RATE == 3
SELECT_CLICK_COOLDOWN == 200
BLINK_TIMES_MAXLEN == 4
FRAME_W == 1280                 \* pixels
FRAME_H == 720
CLICK_ZONE_PCT == 85
VEL_EPS == 1                    \* 1e-3 px/s

----------------------------------------------------------------------------
(* update_velocity_constant                                                *)

\* lines 363-370: the X target from the yaw delta
TargetX(dyaw, p, vprev_x) ==
    IF Abs(dyaw) > p.deadzone_yaw + p.hysteresis_deg THEN p.vmax_x * Sign(dyaw)
    ELSE IF Abs(dyaw) < p.deadzone_yaw THEN 0
    ELSE IF Abs(vprev_x) > VEL_EPS THEN p.vmax_x * Sign(vprev_x)
    ELSE 0

\* lines 372-379: the Y target from the roll delta
TargetY(droll, p, vprev_y) ==
    IF Abs(droll) > p.deadzone_roll + p.hysteresis_deg THEN -p.vmax_y * Sign(droll)
    ELSE IF Abs(droll) < p.deadzone_roll THEN 0
    ELSE IF Abs(vprev_y) > VEL_EPS THEN -p.vmax_y * Sign(vprev_y)
    ELSE 0

\* a slew that coasts: the velocity is kept when the target is 0
SlewCoasting(vprev, vtarget, tau, dt) ==
    IF vtarget = 0 THEN vprev
    ELSE vprev + RoundDiv((vtarget - vprev) * dt, tau + dt)

\* lines 381-384: v_prev + (v_target - v_prev) * dt / (tau + dt)
Slew(vprev, vtarget, tau, dt) ==
    IF tau > 0 THEN vprev + RoundDiv((vtarget - vprev) * dt, tau + dt)
    ELSE vtarget

UpdateVelocityConstant(dyaw, droll, p, vprev, dt) ==
    << Slew(vprev[1], TargetX(dyaw, p, vprev[1]), p.tau_vel, dt),
       Slew(vprev[2], TargetY(droll, p, vprev[2]), p.tau_vel, dt) >>

\* np.clip
Clip(x, lo, hi) == IF x < lo THEN lo ELSE IF x > hi THEN hi ELSE x

\* the integration with the clamp left out
IntegrateUnclamped(pos, v, dt, size) == pos + RoundDiv(v * dt, 100)

\* lines 745-750: integrate one axis and clamp it to the window, size in pixels
Integrate(pos, v, dt, size) == Clip(pos + RoundDiv(v * dt, 100), 0, (size - 1) * 1000)

\* a clamp that also stops the cursor: the velocity component of an axis whose
\* position is at an edge of the window is set to 0
StoppedAtEdge(v, x, y) ==
    << IF x \in {0, (FRAME_W - 1) * 1000} THEN 0 ELSE v[1],
       IF y \in {0, (FRAME_H - 1) * 1000} THEN 0 ELSE v[2] >>

\* lines 748-750: np.clip assigns cursor_x and cursor_y only; v_cmd stays as
\* update_velocity_constant returned it
AfterClamp(v, x, y) == v

\* lines 635-640
SmoothYaw(s, new) ==
    IF new = None THEN s
    ELSE IF s = None THEN new
    ELSE Some(RoundDiv(YAW_SMOOTHING * Val(s) + (10 - YAW_SMOOTHING) * Val(new), 10))

\* lines 642-647
SmoothRoll(s, new) ==
    IF new = None THEN s
    ELSE IF s = None THEN new
    ELSE Some(RoundDiv(Val(s) + Val(new), 2))

\* lines 761-762 and the "%.2f" of lines 412-413: position as a percentage
Percent(pos, size) == RoundDiv(pos * 10, size)

\* the zone measured from the top edge instead
InClickZoneTop(y, size) == y * 100 <= (100 - CLICK_ZONE_PCT) * size * 1000

\* line 774: y_percent >= 85.0
InClickZone(y, size) == y * 100 >= CLICK_ZONE_PCT * size * 1000

\* line 534
ModeNames(i) == <<"cursor", "move", "cursor">>[i + 1]

Msg(kind, command, x, y) ==
    [kind |-> kind, command |-> command,
     x |-> Percent(x, FRAME_W), y |-> Percent(y, FRAME_H)]

----------------------------------------------------------------------------
(* run_calibration                                                         *)
\* the stages with the two turns exchanged
StepsTurnsExchanged == <<"neutral", "right", "left", "tilt_left", "tilt_right">>

\* lines 223-229
Steps == <<"neutral", "left", "right", "tilt_left", "tilt_right">>
CALIB_MIN_SAMPLES == 5
CALIB_CAPTURE_TIME == 150
DEADZONE_FLOOR == 80
ROM_FRACTION_DIV == 4           \* 0.25 * rom

\* np.median
Median(s) ==
    LET srt == SortSeq(s, LAMBDA a, b : a < b)
        n == Len(s)
    IN  IF n % 2 = 1 THEN srt[(n + 1) \div 2]
        ELSE RoundDiv(srt[n \div 2] + srt[n \div 2 + 1], 2)

\* lines 304-315: the value a stage records for one axis
StageValue(samples) ==
    IF Len(samples) > CALIB_MIN_SAMPLES THEN Median(samples) ELSE 0

\* the deadzones without their floor
FinishCalibrationNoFloor(yaw, roll) ==
    LET yaw0 == yaw["neutral"]
        roll0 == roll["neutral"]
        rom_yaw == Max(Abs(yaw["right"] - yaw0), Abs(yaw0 - yaw["left"]))
        rom_roll == Max(Abs(roll["tilt_left"] - roll0), Abs(roll["tilt_right"] - roll0))
    IN  [yaw |-> yaw, roll |-> roll, rom_yaw |-> rom_yaw, rom_roll |-> rom_roll,
         deadzone_yaw |-> RoundDiv(rom_yaw, ROM_FRACTION_DIV),
         deadzone_roll |-> RoundDiv(rom_roll, ROM_FRACTION_DIV)]

\* lines 321-337: range of motion and deadzones from the five stage values
FinishCalibration(yaw, roll) ==
    LET yaw0 == yaw["neutral"]
        roll0 == roll["neutral"]
        rom_yaw == Max(Abs(yaw["right"] - yaw0), Abs(yaw0 - yaw["left"]))
        rom_roll == Max(Abs(roll["tilt_left"] - roll0), Abs(roll["tilt_right"] - roll0))
    IN  [yaw |-> yaw, roll |-> roll, rom_yaw |-> rom_yaw, rom_roll |-> rom_roll,
         deadzone_yaw |-> Max(DEADZONE_FLOOR, RoundDiv(rom_yaw, ROM_FRACTION_DIV)),
         deadzone_roll |-> Max(DEADZONE_FLOOR, RoundDiv(rom_roll, ROM_FRACTION_DIV))]

StepSet == {Steps[i] : i \in 1..Len(Steps)}

\* the whole of run_calibration, given the samples each stage's capture collects
RunCalibration(samples) ==
    FinishCalibration([k \in StepSet |-> StageValue(samples[k].yaw)],
                      [k \in StepSet |-> StageValue(samples[k].roll)])


----------------------------------------------------------------------------
(* Gesture detectors of main_loop                                          *)

\* the append of a plain list: no capacity
ListAppend(q, x, n) == q \o <<x>>

\* collections.deque(maxlen = n).append
DequeAppend(q, x, n) == IF Len(q) >= n THEN Tail(q) \o <<x>> ELSE q \o <<x>>

\* lines 699-701: drop the blinks older than the window from the front
RECURSIVE EvictOld(_, _)
EvictOld(bt, t) ==
    IF bt # <<>> /\ (t - bt[1]) > TRIPLE_BLINK_WINDOW THEN EvictOld(Tail(bt), t) ELSE bt

\* lines 699-704
RegisterBlink(bt, t) == DequeAppend(EvictOld(bt, t), t, BLINK_TIMES_MAXLEN)

\* the double-blink test of cace.py, lines 143-144, in its place
DoubleBlinkDetected(bt) ==
    /\ Len(bt) >= 2
    /\ bt[Len(bt)] - bt[Len(bt) - 1] <= TRIPLE_BLINK_WINDOW

\* lines 714-717: three blinks, the first and the third within the window
TripleBlinkDetected(bt) ==
    /\ Len(bt) >= 3
    /\ bt[Len(bt)] - bt[Len(bt) - 2] <= TRIPLE_BLINK_WINDOW

\* line 653
MouthOpen(mar) == mar > MOUTH_OPEN_THRESH

\* line 661
EyesOpen(l_ear, r_ear) == l_ear > BLINK_EAR_THRESH /\ r_ear > BLINK_EAR_THRESH

\* lines 685-692: one eye's run counter
EyeRun(run, ear) == IF ear < BLINK_EAR_THRESH THEN run + 1 ELSE 0

\* a run counter that survives a frame without a face
RunKept(run) == run

\* lines 756-757 (cace.py lines 167-168): a frame without a face resets the
\* run counter of each eye
NoFaceRun(run) == 0

\* a blink of either eye
IsBlinkEitherEye(l, r) == l >= BLINK_MIN_FRAMES \/ r >= BLINK_MIN_FRAMES

\* line 694
IsBlink(l, r) == l >= BLINK_MIN_FRAMES /\ r >= BLINK_MIN_FRAMES

\* a rolling window: samples keep arriving after the baseline is set
BrowSamplesRolling(samples, baseline, eyes_open, brow_norm) ==
    IF eyes_open
    THEN DequeAppend(samples, brow_norm, BROW_BASELINE_FRAMES)
    ELSE samples

\* lines 673-674: the sample window while the baseline is being learned
BrowSamples(samples, baseline, eyes_open, brow_norm) ==
    IF eyes_open /\ baseline = None
    THEN DequeAppend(samples, brow_norm, BROW_BASELINE_FRAMES)
    ELSE samples

\* lines 673-676: the baseline, set when the window is full
BrowBaseline(samples, baseline, eyes_open, brow_norm) ==
    IF eyes_open /\ baseline = None
       /\ Len(BrowSamples(samples, baseline, eyes_open, brow_norm)) = BROW_BASELINE_FRAMES
    THEN Some(Median(BrowSamples(samples, baseline, eyes_open, brow_norm)))
    ELSE baseline

\* the brows up without the mutual exclusion of lines 680-682
BrowUpNotExcluded(baseline, eyes_open, mouth_open, brow_norm) ==
    /\ eyes_open
    /\ baseline # None
    /\ brow_norm * 100 >= Val(baseline) * (100 + BROW_UP_FACTOR)

\* the brows compared with the resting distance before a baseline is learned
BrowUpUnlearned(baseline, eyes_open, mouth_open, brow_norm) ==
    /\ eyes_open
    /\ brow_norm * 100 >= (IF baseline = None THEN 100 ELSE Val(baseline))
                              * (100 + BROW_UP_FACTOR)
    /\ ~(mouth_open \/ ~eyes_open)

\* lines 663-682: brow_up of this frame
BrowUp(baseline, eyes_open, mouth_open, brow_norm) ==
    /\ eyes_open
    /\ baseline # None
    /\ brow_norm * 100 >= Val(baseline) * (100 + BROW_UP_FACTOR)
    /\ ~(mouth_open \/ ~eyes_open)

\* no hold time
HoldIgnored(now, start) == TRUE

\* lines 799-801: the brows have been up long enough
HoldElapsed(now, start) == now - start >= BROW_HOLD_TIME

\* the mouth gesture taken from the level, not from the edge
MouthLevel(mouth_open, prev) == mouth_open

\* lines 768-769: the mouth has just opened
MouthRise(mouth_open, prev) == mouth_open /\ ~prev

\* the rate limit left out
CooldownIgnored(now, last) == TRUE

\* line 771
OffCooldown(now, last) == now - last >= SELECT_CLICK_COOLDOWN

\* lines 774-778
SelectOrClick(y) == IF InClickZone(y, FRAME_H) THEN "click" ELSE "select"

\* line 811
NextMode(m) == (m + 1) % 3


----------------------------------------------------------------------------
(* State after main_loop's set-up, lines 502-551                           *)
START_TIME == 1000              \* time.time() when the loop starts

Params0 ==
    [vmax_x |-> VMAX_X, vmax_y |-> VMAX_Y,
     deadzone_yaw |-> DEADZONE_YAW, deadzone_roll |-> DEADZONE_ROLL,
     hysteresis_deg |-> HYSTERESIS_DEG, tau_vel |-> TAU_VEL]

Obs0 == [slew |-> FALSE, dt |-> 0, dyaw |-> 0, droll |-> 0,
         vprev |-> <<0, 0>>, target |-> <<0, 0>>, p |-> Params0,
         face |-> FALSE, pose |-> <<None, None>>,
         mouth |-> FALSE, eyes |-> FALSE, brow |-> FALSE]

\* blinks: the timestamps of the blinks registered; modes: mode changes emitted;
\* edges: the mouth-open rising edges, each with its time, whether the cooldown
\* had run out, and the kinds of the events it emitted;
\* iter, keys: frames processed, keys pressed; counts: the yaw and roll samples
\* each capture window of the last calibration run collected;
\* up_since: the time of the first of the frames in a row, up to the last one,
\* in which the brows were up (None: they were not up in the last frame);
\* run_deletes: the Delete events emitted in those frames; shut: the last
\* frame with a face showed both eyes closed; gape: the select and click
\* events emitted since the last frame that showed the mouth closed
Hist0 == [blinks |-> <<>>, modes |-> 0, edges |-> <<>>, iter |-> 0, keys |-> 0,
          counts |-> <<>>, up_since |-> None, run_deletes |-> 0, shut |-> FALSE,
          gape |-> 0]

\* no broadcast yet. While broadcast_cursor or broadcast_command runs:
\* msgs: the messages of this iteration still to broadcast, the first being
\* the one in hand; used: the size of the registry when the for loop of line
\* 418 or 439 began; visited: the consumers the loop has come to; at: the
\* consumer whose send is awaited; disconnected: the local set of that name;
\* observers: start, the registry when the loop began; delivered, the
\* consumers whose send returned; failed, the consumers whose send raised in
\* this iteration of the frame loop; error, an exception left the broadcast
Broadcast0 ==
    [msgs |-> <<>>, used |-> 0, visited |-> {}, at |-> None, disconnected |-> {},
     start |-> {}, delivered |-> {}, failed |-> {}, error |-> FALSE]

\* the module globals and the locals of main_loop as lines 502-551 set them
InitState ==
    /\ clock = START_TIME
    /\ calib = None
    /\ cursor_x = (FRAME_W * 1000) \div 2
    /\ cursor_y = (FRAME_H * 1000) \div 2
    /\ v_cmd = <<0, 0>>
    /\ smoothed_yaw = None
    /\ smoothed_roll = None
    /\ brow_samples = <<>>
    /\ brow_baseline = None
    /\ l_run = 0
    /\ r_run = 0
    /\ blink_active = FALSE
    /\ blink_times = <<>>
    /\ triple_blink_until = 0
    /\ prev_mouth_open = FALSE
    /\ prev_brow_up = FALSE
    /\ prev_triple_blink = FALSE
    /\ brow_up_start_time = None
    /\ brow_triggered = FALSE
    /\ last_select_click_time = 0
    /\ current_mode = 0
    /\ params = Params0
    /\ prev_time = START_TIME
    /\ last_ws_send = START_TIME
    /\ shutdown_flag = FALSE
    /\ connected_clients = {}
    /\ cal = None
    /\ ws_task = "serving"
    /\ closed = {}
    /\ stalled = {}
    /\ broadcast = Broadcast0
    /\ out = <<>>
    /\ obs = Obs0
    /\ hist = Hist0

InitLoop ==
    /\ pc = "frame"
    /\ InitState

\* a velocity left over when the cursor is not driven
Creeping == <<1000, 0>>

\* lines 751-755: the velocity without a profile, a yaw or a face
Halted == <<0, 0>>

----------------------------------------------------------------------------
(* One iteration of the frame loop up to the key poll, lines 582-898.      *)
(* Inputs: the detector's result for the frame (face, the pose estimates,  *)
(* the aspect ratios, the normalised brow distance), the clock readings,   *)
(* and the consumers whose send fails during this iteration's broadcasts.  *)
(* `atomic`: no send is suspended (Tick); otherwise the broadcasts are     *)
(* left to the steps with pc = "send" (TickSending).                       *)
Iteration(face, yaw_new, roll_new, mar, l_ear, r_ear, brow_norm, now, lag, failed, atomic) ==
    /\ pc = "frame"
    /\ ~shutdown_flag
    /\ now >= clock
    /\ failed \subseteq connected_clients
    /\ LET dt == now - prev_time
           t2 == now + lag
           sy == IF face THEN SmoothYaw(smoothed_yaw, yaw_new) ELSE smoothed_yaw
           sr == IF face THEN SmoothRoll(smoothed_roll, roll_new) ELSE smoothed_roll
           mouth_open == face /\ MouthOpen(mar)
           eyes_open == EyesOpen(l_ear, r_ear)
           brow_up == face /\ BrowUp(brow_baseline, eyes_open, mouth_open, brow_norm)
           l2 == IF face THEN EyeRun(l_run, l_ear) ELSE NoFaceRun(l_run)
           r2 == IF face THEN EyeRun(r_run, r_ear) ELSE NoFaceRun(r_run)
           is_blink == IsBlink(l2, r2)
           edge == face /\ is_blink /\ ~blink_active
           bt2 == IF edge THEN RegisterBlink(blink_times, t2) ELSE blink_times
           tbu2 == IF edge /\ TripleBlinkDetected(bt2)
                   THEN t2 + TRIPLE_BLINK_HOLD ELSE triple_blink_until
           triple_blink == face /\ t2 < tbu2
           moving == face /\ calib # None /\ sy # None
           dyaw == IF moving THEN Val(sy) - Val(calib).yaw["neutral"] ELSE 0
           droll == IF moving
                    THEN (IF sr = None THEN 0 ELSE Val(sr)) - Val(calib).roll["neutral"]
                    ELSE 0
           v2 == IF moving THEN UpdateVelocityConstant(dyaw, droll, params, v_cmd, dt)
                 ELSE Halted
           cx2 == IF moving THEN Integrate(cursor_x, v2[1], dt, FRAME_W) ELSE cursor_x
           cy2 == IF moving THEN Integrate(cursor_y, v2[2], dt, FRAME_H) ELSE cursor_y
           \* lines 759-765
           periodic == now - last_ws_send >= WS_UPDATE_RATE
           m1 == IF periodic /\ connected_clients # {}
                 THEN <<Msg("CursorUpdate", ModeNames(current_mode), cx2, cy2)>> ELSE <<>>
           \* lines 767-785
           mouth_rise == MouthRise(mouth_open, prev_mouth_open)
           fire == mouth_rise /\ OffCooldown(now, last_select_click_time)
           m2 == IF fire
                 THEN <<Msg(IF SelectOrClick(cy2) = "click" THEN "Click" ELSE "Select",
                            SelectOrClick(cy2), cx2, cy2)>>
                 ELSE <<>>
           \* lines 787-807
           brow_change == brow_up # prev_brow_up
           start2 == IF brow_change THEN (IF brow_up THEN Some(now) ELSE None)
                     ELSE brow_up_start_time
           trig1 == IF brow_change THEN FALSE ELSE brow_triggered
           delete == brow_up /\ start2 # None /\ ~trig1
                     /\ HoldElapsed(now, Val(start2))
           m3 == IF delete THEN <<Msg("Delete", "delete", cx2, cy2)>> ELSE <<>>
           \* lines 809-816
           mode_edge == triple_blink /\ ~prev_triple_blink
           mode2 == IF mode_edge THEN NextMode(current_mode) ELSE current_mode
           m4 == IF mode_edge THEN <<Msg("ModeChange", ModeNames(mode2), cx2, cy2)>>
                 ELSE <<>>
           sent == m1 \o m2 \o m3 \o m4
       IN  /\ prev_time' = now
           /\ clock' = t2
           /\ smoothed_yaw' = sy
           /\ smoothed_roll' = sr
           /\ brow_samples' = IF face
                              THEN BrowSamples(brow_samples, brow_baseline, eyes_open, brow_norm)
                              ELSE brow_samples
           /\ brow_baseline' = IF face
                               THEN BrowBaseline(brow_samples, brow_baseline, eyes_open, brow_norm)
                               ELSE brow_baseline
           /\ l_run' = l2
           /\ r_run' = r2
           /\ blink_times' = bt2
           /\ triple_blink_until' = tbu2
           /\ blink_active' = IF ~face THEN blink_active
                              ELSE IF edge THEN TRUE
                              ELSE IF ~is_blink /\ blink_active THEN FALSE
                              ELSE blink_active
           /\ v_cmd' = AfterClamp(v2, cx2, cy2)
           /\ cursor_x' = cx2
           /\ cursor_y' = cy2
           /\ last_ws_send' = IF periodic THEN now ELSE last_ws_send
           /\ prev_mouth_open' = mouth_open
           /\ last_select_click_time' = IF fire THEN now ELSE last_select_click_time
           /\ prev_brow_up' = brow_up
           /\ brow_up_start_time' = start2
           /\ brow_triggered' = (trig1 \/ delete)
           /\ current_mode' = mode2
           /\ prev_triple_blink' = triple_blink
           /\ connected_clients' = IF atomic /\ sent # <<>>
                                   THEN connected_clients \ failed
                                   ELSE connected_clients
           /\ broadcast' = IF atomic THEN broadcast
                           ELSE [Broadcast0 EXCEPT !.msgs = sent,
                                                   !.used = Cardinality(connected_clients),
                                                   !.start = connected_clients]
           /\ out' = sent
           /\ obs' = [slew |-> moving, dt |-> dt, dyaw |-> dyaw, droll |-> droll,
                      vprev |-> v_cmd,
                      target |-> IF moving
                                 THEN <<TargetX(dyaw, params, v_cmd[1]),
                                        TargetY(droll, params, v_cmd[2])>>
                                 ELSE <<0, 0>>,
                      p |-> params,
                      face |-> face,
                      pose |-> IF face THEN <<yaw_new, roll_new>> ELSE <<None, None>>,
                      mouth |-> mouth_open,
                      eyes |-> face /\ eyes_open,
                      brow |-> brow_up]
           /\ hist' = [blinks |-> IF edge THEN Append(hist.blinks, t2) ELSE hist.blinks,
                       modes |-> hist.modes + (IF mode_edge THEN 1 ELSE 0),
                       edges |-> IF mouth_rise
                                 THEN Append(hist.edges,
                                             [t |-> now, off |-> fire,
                                              kinds |-> [i \in 1..Len(m2) |-> m2[i].kind]])
                                 ELSE hist.edges,
                       iter |-> hist.iter + 1,
                       keys |-> hist.keys,
                       counts |-> hist.counts,
                       up_since |-> IF ~brow_up THEN None
                                    ELSE IF hist.up_since = None THEN Some(now)
                                    ELSE hist.up_since,
                       run_deletes |-> IF brow_up THEN hist.run_deletes + Len(m3)
                                       ELSE 0,
                       shut |-> IF face
                                THEN l_ear < BLINK_EAR_THRESH /\ r_ear < BLINK_EAR_THRESH
                                ELSE hist.shut,
                       gape |-> IF face /\ ~MouthOpen(mar) THEN 0
                                ELSE hist.gape + Len(m2)]
           /\ pc' = IF atomic \/ sent = <<>> THEN "key" ELSE "send"
           /\ UNCHANGED <<calib, params, shutdown_flag, calib_file, cal, ws_task,
                          closed, stalled>>

\* the iteration when no send of its broadcasts is suspended, so that nothing
\* else runs before they return: `failed` are the consumers whose send raises
\* ConnectionClosed
Tick(face, yaw_new, roll_new, mar, l_ear, r_ear, brow_norm, now, lag, failed) ==
    Iteration(face, yaw_new, roll_new, mar, l_ear, r_ear, brow_norm, now, lag, failed, TRUE)

\* the iteration with its broadcasts still to run, send by send (pc = "send").
\* The assignments that follow a broadcast in the code (lines 765, 780, 784,
\* 806, 816) are made here already; the locals they set are read again only
\* in an iteration that begins after the broadcasts have returned.
TickSending(face, yaw_new, roll_new, mar, l_ear, r_ear, brow_norm, now, lag) ==
    Iteration(face, yaw_new, roll_new, mar, l_ear, r_ear, brow_norm, now, lag, {}, FALSE)


----------------------------------------------------------------------------
(* The key poll that ends an iteration, lines 900-965                      *)
VMAX_MIN == 100000
VMAX_MAX == 2000000
VMAX_STEP == 50000
DEADZONE_YAW_MIN == 5
DEADZONE_YAW_STEP == 5
DEADZONE_ROLL_MIN == 10
DEADZONE_ROLL_STEP == 10
DEADZONE_MAX == 300
FRAME_RETRY_SLEEP == 10

EndIteration == pc = "key" /\ pc' = "frame"

\* observer: a key was pressed
Pressed == hist' = [hist EXCEPT !.keys = @ + 1]

\* no key pressed
KeyNone ==
    /\ EndIteration
    /\ UNCHANGED <<clock, ctl, gest, prev_time, last_ws_send, shutdown_flag,
                   connected_clients, calib_file, net, cal, out, obs, hist>>

\* the quit key without the break of line 906
KeyQuitWithoutBreak ==
    /\ EndIteration
    /\ shutdown_flag' = TRUE
    /\ UNCHANGED <<clock, ctl, gest, prev_time, last_ws_send,
                   connected_clients, calib_file, net, cal, out, obs>>
    /\ Pressed

\* lines 903-906 and the finally block, lines 967-974
KeyQuit ==
    /\ pc = "key"
    /\ pc' = "done"
    /\ shutdown_flag' = TRUE
    /\ UNCHANGED <<clock, ctl, gest, prev_time, last_ws_send,
                   connected_clients, calib_file, net, cal, out, obs>>
    /\ Pressed

\* lines 911-918: what main_loop does with the profile run_calibration returns
ApplyCalibration(new_calib) ==
    /\ calib' = Some(new_calib)
    /\ smoothed_yaw' = Some(new_calib.yaw["neutral"])
    /\ smoothed_roll' = Some(new_calib.roll["neutral"])
    /\ params' = [params EXCEPT !.deadzone_yaw = new_calib.deadzone_yaw,
                                !.deadzone_roll = new_calib.deadzone_roll]

\* lines 907-918: run_calibration is a plain (blocking) call; `samples` is what
\* its five capture windows collect and `dur` the time the call takes
KeyCalibrate(samples, dur) ==
    /\ EndIteration
    /\ dur >= Len(Steps) * CALIB_CAPTURE_TIME
    /\ ApplyCalibration(RunCalibration(samples))
    /\ clock' = clock + dur
    /\ UNCHANGED <<cursor_x, cursor_y, v_cmd, gest, prev_time, last_ws_send,
                   shutdown_flag, connected_clients, calib_file, net, cal, out, obs>>
    /\ hist' = [hist EXCEPT !.keys = @ + 1,
                            !.counts = [i \in 1..Len(Steps) |->
                                          <<Len(samples[Steps[i]].yaw),
                                            Len(samples[Steps[i]].roll)>>]]

----------------------------------------------------------------------------
(* run_calibration step by step, lines 234-344. While it runs `cal` holds  *)
(* its locals: the stage, the loop it is in, start_time, the samples of    *)
(* the stage, the stage values stored so far; and with them what the       *)
(* camera sees during the stage (`scene`).                                 *)

\* what the camera sees during a stage: the pose estimates (None: no estimate),
\* the wobble of every other frame, and the time a frame takes
NoScene == [face |-> FALSE, yaw |-> None, roll |-> None, wobble |-> 0, dt |-> 25]

\* lines 907-910 and 231-238: the call starts with the first stage's wait loop
KeyCalibrateStart ==
    /\ pc = "key"
    /\ pc' = "calib"
    /\ cal' = Some([stage |-> 1, phase |-> "wait", idle |-> FALSE, start_time |-> 0,
                    scene |-> NoScene, samples_yaw |-> <<>>, samples_roll |-> <<>>,
                    yaw |-> <<>>, roll |-> <<>>])
    /\ hist' = [hist EXCEPT !.keys = @ + 1, !.counts = <<>>]
    /\ UNCHANGED <<clock, ctl, gest, prev_time, last_ws_send, shutdown_flag,
                   connected_clients, calib_file, net, out, obs>>

\* lines 241-279: one iteration of the wait loop; on SPACE the capture starts
CalWait(space, scene) ==
    /\ pc = "calib"
    /\ Val(cal).phase = "wait"
    /\ clock' = clock + scene.dt
    /\ cal' = IF space
              THEN Some([Val(cal) EXCEPT !.phase = "capture", !.start_time = clock',
                                         !.scene = scene])
              ELSE Some([Val(cal) EXCEPT !.idle = TRUE, !.scene = scene])
    /\ UNCHANGED <<pc, ctl, gest, prev_time, last_ws_send, shutdown_flag,
                   connected_clients, calib_file, net, out, obs, hist>>

\* a capture loop that goes on until it has a sample
CalCaptureUntilSampled ==
    /\ pc = "calib"
    /\ Val(cal).phase = "capture"
    /\ \/ clock - Val(cal).start_time < CALIB_CAPTURE_TIME
       \/ Val(cal).samples_roll = <<>>
    /\ LET c == Val(cal)
           sc == c.scene
           w == IF Len(c.samples_roll) % 2 = 1 THEN sc.wobble ELSE 0
       IN  cal' = Some([c EXCEPT
                 !.samples_yaw = IF sc.face /\ sc.yaw # None
                                 THEN Append(@, Val(sc.yaw) + w) ELSE @,
                 !.samples_roll = IF sc.face /\ sc.roll # None
                                  THEN Append(@, Val(sc.roll) + w) ELSE @])
    /\ clock' = clock + Val(cal).scene.dt
    /\ UNCHANGED <<pc, ctl, gest, prev_time, last_ws_send, shutdown_flag,
                   connected_clients, calib_file, net, out, obs, hist>>

\* lines 280-302: one iteration of the capture loop
CalCapture ==
    /\ pc = "calib"
    /\ Val(cal).phase = "capture"
    /\ clock - Val(cal).start_time < CALIB_CAPTURE_TIME
    /\ LET c == Val(cal)
           sc == c.scene
           w == IF Len(c.samples_roll) % 2 = 1 THEN sc.wobble ELSE 0
       IN  cal' = Some([c EXCEPT
                 !.samples_yaw = IF sc.face /\ sc.yaw # None
                                 THEN Append(@, Val(sc.yaw) + w) ELSE @,
                 !.samples_roll = IF sc.face /\ sc.roll # None
                                  THEN Append(@, Val(sc.roll) + w) ELSE @])
    /\ clock' = clock + Val(cal).scene.dt
    /\ UNCHANGED <<pc, ctl, gest, prev_time, last_ws_send, shutdown_flag,
                   connected_clients, calib_file, net, out, obs, hist>>

\* lines 304-317: the capture window is over, the stage's values are stored;
\* after the fifth stage lines 319-344 and 911-918: the profile is returned and
\* applied
CalStageEnd ==
    /\ pc = "calib"
    /\ Val(cal).phase = "capture"
    /\ clock - Val(cal).start_time >= CALIB_CAPTURE_TIME
    /\ LET c == Val(cal)
           yaw2 == Append(c.yaw, StageValue(c.samples_yaw))
           roll2 == Append(c.roll, StageValue(c.samples_roll))
           idx(k) == CHOOSE i \in 1..Len(Steps) : Steps[i] = k
       IN  /\ hist' = [hist EXCEPT !.counts =
                          Append(@, <<Len(c.samples_yaw), Len(c.samples_roll)>>)]
           /\ IF c.stage < Len(Steps)
              THEN /\ cal' = Some([c EXCEPT !.stage = @ + 1, !.phase = "wait",
                                            !.samples_yaw = <<>>, !.samples_roll = <<>>,
                                            !.yaw = yaw2, !.roll = roll2])
                   /\ UNCHANGED <<pc, calib, smoothed_yaw, smoothed_roll, params>>
              ELSE /\ cal' = None
                   /\ pc' = "frame"
                   /\ ApplyCalibration(FinishCalibration([k \in StepSet |-> yaw2[idx(k)]],
                                                         [k \in StepSet |-> roll2[idx(k)]]))
    /\ UNCHANGED <<clock, cursor_x, cursor_y, v_cmd, gest, prev_time, last_ws_send,
                   shutdown_flag, connected_clients, calib_file, net, out, obs>>

\* lines 919-925
KeySave ==
    /\ EndIteration
    /\ calib_file' = IF calib # None THEN calib ELSE calib_file
    /\ UNCHANGED <<clock, ctl, gest, prev_time, last_ws_send, shutdown_flag,
                   connected_clients, cal, net, out, obs>>
    /\ Pressed

\* lines 926-937
KeyLoad ==
    /\ EndIteration
    /\ IF calib_file # None
       THEN /\ calib' = calib_file
            /\ smoothed_yaw' = IF smoothed_yaw = None
                               THEN Some(Val(calib_file).yaw["neutral"]) ELSE smoothed_yaw
            /\ smoothed_roll' = IF smoothed_roll = None
                                THEN Some(Val(calib_file).roll["neutral"]) ELSE smoothed_roll
            /\ params' = [params EXCEPT !.deadzone_yaw = Val(calib_file).deadzone_yaw,
                                        !.deadzone_roll = Val(calib_file).deadzone_roll]
       ELSE UNCHANGED <<calib, smoothed_yaw, smoothed_roll, params>>
    /\ UNCHANGED <<clock, cursor_x, cursor_y, v_cmd, gest, prev_time, last_ws_send,
                   shutdown_flag, connected_clients, calib_file, net, cal, out, obs>>
    /\ Pressed

\* a recentering that derives the ranges of motion and the deadzones again
KeyRecenterRederived ==
    /\ EndIteration
    /\ calib' = IF calib # None /\ smoothed_yaw # None /\ smoothed_roll # None
                THEN Some(FinishCalibration(
                        [Val(calib).yaw EXCEPT !["neutral"] = Val(smoothed_yaw)],
                        [Val(calib).roll EXCEPT !["neutral"] = Val(smoothed_roll)]))
                ELSE calib
    /\ UNCHANGED <<clock, cursor_x, cursor_y, v_cmd, smoothed_yaw, smoothed_roll, params,
                   gest, prev_time, last_ws_send, shutdown_flag, connected_clients,
                   calib_file, net, cal, out, obs>>
    /\ Pressed

\* lines 938-942
KeyRecenter ==
    /\ EndIteration
    /\ calib' = IF calib # None /\ smoothed_yaw # None /\ smoothed_roll # None
                THEN Some([Val(calib) EXCEPT !.yaw["neutral"] = Val(smoothed_yaw),
                                             !.roll["neutral"] = Val(smoothed_roll)])
                ELSE calib
    /\ UNCHANGED <<clock, cursor_x, cursor_y, v_cmd, smoothed_yaw, smoothed_roll, params,
                   gest, prev_time, last_ws_send, shutdown_flag, connected_clients,
                   calib_file, net, cal, out, obs>>
    /\ Pressed

SetParams(p) ==
    /\ EndIteration
    /\ params' = p
    /\ UNCHANGED <<clock, calib, cursor_x, cursor_y, v_cmd, smoothed_yaw, smoothed_roll,
                   gest, prev_time, last_ws_send, shutdown_flag, connected_clients,
                   calib_file, net, cal, out, obs>>
    /\ Pressed

\* lines 943-946
SpeedDown(p) ==
    [p EXCEPT !.vmax_x = Max(VMAX_MIN, p.vmax_x - VMAX_STEP),
              !.vmax_y = Max(VMAX_MIN, p.vmax_x - VMAX_STEP)]

\* lines 947-950
SpeedUp(p) ==
    [p EXCEPT !.vmax_x = Min(VMAX_MAX, p.vmax_x + VMAX_STEP),
              !.vmax_y = Min(VMAX_MAX, p.vmax_x + VMAX_STEP)]

\* lines 951-956
YawDeadzoneDown(p) ==
    [p EXCEPT !.deadzone_yaw = Max(DEADZONE_YAW_MIN, p.deadzone_yaw - DEADZONE_YAW_STEP)]
YawDeadzoneUp(p) ==
    [p EXCEPT !.deadzone_yaw = Min(DEADZONE_MAX, p.deadzone_yaw + DEADZONE_YAW_STEP)]

\* lines 957-962
RollDeadzoneDown(p) ==
    [p EXCEPT !.deadzone_roll = Max(DEADZONE_ROLL_MIN, p.deadzone_roll - DEADZONE_ROLL_STEP)]
RollDeadzoneUp(p) ==
    [p EXCEPT !.deadzone_roll = Min(DEADZONE_MAX, p.deadzone_roll + DEADZONE_ROLL_STEP)]

KeySpeedDown == SetParams(SpeedDown(params))
KeySpeedUp == SetParams(SpeedUp(params))
KeyYawDeadzoneDown == SetParams(YawDeadzoneDown(params))
KeyYawDeadzoneUp == SetParams(YawDeadzoneUp(params))
KeyRollDeadzoneDown == SetParams(RollDeadzoneDown(params))
KeyRollDeadzoneUp == SetParams(RollDeadzoneUp(params))

\* lines 583-587: cap.read() fails, the loop sleeps and retries
FrameFail ==
    /\ pc = "frame"
    /\ ~shutdown_flag
    /\ clock' = clock + FRAME_RETRY_SLEEP
    /\ UNCHANGED <<pc, ctl, gest, prev_time, last_ws_send, shutdown_flag,
                   connected_clients, calib_file, net, cal, out, obs, hist>>

----------------------------------------------------------------------------
(* The start of main_loop, lines 472-484. initialize_camera (lines 69-105) *)
(* is a plain call: no other task runs until it has returned.              *)

\* a failed start that returns without setting the flag
CameraFailsFlagUnset ==
    /\ pc = "start"
    /\ pc' = "done"
    /\ UNCHANGED <<clock, ctl, gest, prev_time, last_ws_send, shutdown_flag,
                   connected_clients, calib_file, net, cal, out, obs, hist>>

\* lines 475-482: no camera gave a frame; the flag is set and main_loop returns
CameraFails ==
    /\ pc = "start"
    /\ pc' = "done"
    /\ shutdown_flag' = TRUE
    /\ UNCHANGED <<clock, ctl, gest, prev_time, last_ws_send,
                   connected_clients, calib_file, net, cal, out, obs, hist>>

\* lines 473 and 484: a camera gave its frames, main_loop goes on to its loop
CameraOpens ==
    /\ pc = "start"
    /\ pc' = "frame"
    /\ UNCHANGED <<clock, ctl, gest, prev_time, last_ws_send, shutdown_flag,
                   connected_clients, calib_file, net, cal, out, obs, hist>>

----------------------------------------------------------------------------
(* handle_client: the registry of consumers, lines 393-401                 *)

\* The tasks share one event loop: handle_client and websocket_server run
\* only while main_loop is suspended, in the sleep of line 965, in a send
\* it awaits, or after it has returned. run_calibration has no await.
Yielded == pc \in {"frame", "done"} \/ (pc = "send" /\ broadcast.at # None)

\* lines 393-396: a consumer connects and is registered. A connection is a
\* new websocket object: it is none of those the broadcasts of this iteration
\* have come to
Connect(c) ==
    /\ Yielded
    /\ ws_task = "serving"
    /\ c \notin connected_clients \cup closed
    /\ c \notin broadcast.visited \cup broadcast.failed
    /\ connected_clients' = connected_clients \cup {c}
    /\ UNCHANGED <<pc, clock, ctl, gest, prev_time, last_ws_send, shutdown_flag,
                   calib_file, cal, net, out, obs, hist>>

\* the connection of a registered consumer closes; its handler has not run
\* yet (`closed` holds the consumers whose handler is still to run line 400)
Close(c) ==
    /\ Yielded
    /\ c \in connected_clients \ closed
    /\ closed' = closed \cup {c}
    /\ UNCHANGED <<pc, clock, ctl, gest, prev_time, last_ws_send, shutdown_flag,
                   connected_clients, calib_file, cal, ws_task, stalled, broadcast,
                   out, obs, hist>>

\* lines 397-401: the connection is closed, wait_closed returns and the
\* handler removes the consumer with set.remove, which raises KeyError in the
\* handler's task if a broadcast has discarded the consumer already
Disconnect(c) ==
    /\ Yielded
    /\ c \in connected_clients \cup closed
    /\ connected_clients' = connected_clients \ {c}
    /\ closed' = closed \ {c}
    /\ stalled' = stalled \ {c}
    /\ UNCHANGED <<pc, clock, ctl, gest, prev_time, last_ws_send, shutdown_flag,
                   calib_file, cal, ws_task, broadcast, out, obs, hist>>

\* a registered consumer stops reading: a send to it does not return while
\* its connection stays open
Stall(c) ==
    /\ pc \in {"frame", "send", "key"}
    /\ c \in connected_clients \ (closed \cup stalled)
    /\ stalled' = stalled \cup {c}
    /\ UNCHANGED <<pc, clock, ctl, gest, prev_time, last_ws_send, shutdown_flag,
                   connected_clients, calib_file, cal, ws_task, closed, broadcast,
                   out, obs, hist>>

----------------------------------------------------------------------------
(* broadcast_cursor and broadcast_command send by send, lines 404-449      *)

\* lines 418 and 439: the for loop takes the next consumer from the set
\* iterator and awaits the send to it (lines 420 and 441). A consumer added
\* since the loop began may or may not be come to.
NextConsumer(c) ==
    /\ pc = "send"
    /\ broadcast.at = None
    /\ Cardinality(connected_clients) = broadcast.used
    /\ c \in connected_clients \ broadcast.visited
    /\ broadcast' = [broadcast EXCEPT !.at = Some(c), !.visited = @ \cup {c}]
    /\ UNCHANGED <<pc, clock, ctl, gest, prev_time, last_ws_send, shutdown_flag,
                   connected_clients, calib_file, cal, ws_task, closed, stalled,
                   out, obs, hist>>

\* lines 420 and 441: the send returns
SendReturn ==
    /\ pc = "send"
    /\ broadcast.at # None
    /\ Val(broadcast.at) \in connected_clients \ (closed \cup stalled)
    /\ broadcast' = [broadcast EXCEPT !.at = None,
                                      !.delivered = @ \cup broadcast.at]
    /\ UNCHANGED <<pc, clock, ctl, gest, prev_time, last_ws_send, shutdown_flag,
                   connected_clients, calib_file, cal, ws_task, closed, stalled,
                   out, obs, hist>>

\* lines 421-422 and 442-443: the connection is closed, the send raises
\* ConnectionClosed and the consumer is put into `disconnected`
SendRaise ==
    /\ pc = "send"
    /\ broadcast.at # None
    /\ Val(broadcast.at) \in closed \/ Val(broadcast.at) \notin connected_clients
    /\ broadcast' = [broadcast EXCEPT !.at = None,
                                      !.disconnected = @ \cup broadcast.at,
                                      !.failed = @ \cup broadcast.at]
    /\ UNCHANGED <<pc, clock, ctl, gest, prev_time, last_ws_send, shutdown_flag,
                   connected_clients, calib_file, cal, ws_task, closed, stalled,
                   out, obs, hist>>

\* lines 418 and 439: the set has another size than when the loop began; the
\* set iterator raises RuntimeError, which nothing catches before the finally
\* block of main_loop, lines 967-974
SetChanged ==
    /\ pc = "send"
    /\ broadcast.at = None
    /\ Cardinality(connected_clients) # broadcast.used
    /\ broadcast' = [broadcast EXCEPT !.error = TRUE]
    /\ pc' = "done"
    /\ shutdown_flag' = TRUE
    /\ UNCHANGED <<clock, ctl, gest, prev_time, last_ws_send, connected_clients,
                   calib_file, cal, ws_task, closed, stalled, out, obs, hist>>

\* lines 424-426 and 445-449: the loop is over, the consumers in
\* `disconnected` are discarded; then the next broadcast of the iteration
\* begins, or the iteration goes on to the key poll
BroadcastEnd ==
    /\ pc = "send"
    /\ broadcast.at = None
    /\ Cardinality(connected_clients) = broadcast.used
    /\ (broadcast.start \cap connected_clients) \subseteq broadcast.visited
    /\ LET rest == connected_clients \ broadcast.disconnected
       IN  /\ connected_clients' = rest
           /\ closed' = closed
           /\ stalled' = stalled \ broadcast.disconnected
           /\ IF Len(broadcast.msgs) > 1
              THEN /\ broadcast' = [broadcast EXCEPT !.msgs = Tail(@),
                                                     !.used = Cardinality(rest),
                                                     !.visited = {},
                                                     !.disconnected = {},
                                                     !.start = rest,
                                                     !.delivered = {}]
                   /\ pc' = "send"
              ELSE /\ broadcast' = [broadcast EXCEPT !.msgs = <<>>]
                   /\ pc' = "key"
    /\ UNCHANGED <<clock, ctl, gest, prev_time, last_ws_send, shutdown_flag,
                   calib_file, cal, ws_task, out, obs, hist>>

----------------------------------------------------------------------------
(* websocket_server, lines 452-461, and main, lines 977-995                *)

\* line 459 finds the flag set, or main cancels the task (line 989) once
\* main_loop has returned, which sets the flag (line 973): the server leaves
\* the `async with` of line 457, stops accepting and closes its connections
ServerStop ==
    /\ ws_task = "serving"
    /\ shutdown_flag
    /\ Yielded
    /\ ws_task' = "done"
    /\ closed' = closed \cup connected_clients
    /\ UNCHANGED <<pc, clock, ctl, gest, prev_time, last_ws_send, shutdown_flag,
                   connected_clients, calib_file, cal, stalled, broadcast,
                   out, obs, hist>>


----------------------------------------------------------------------------
(* cace.py: the earlier sender of mouth, brow and double-blink flags. Its  *)
(* loop keeps its state under the same names as main_loop (brow_samples,   *)
(* brow_baseline, l_run, r_run, blink_active, blink_times); its            *)
(* double_blink_until is held in triple_blink_until and its last_send in   *)
(* last_ws_send. The variables it does not have stay as they start.        *)
CACE_BROW_UP_FACTOR == 12
DOUBLE_BLINK_WINDOW == 60
DOUBLE_BLINK_HOLD == 20
SEND_FPS == 30

\* cace.py lines 78-89
InitCace ==
    /\ pc = "cace"
    /\ clock = START_TIME
    /\ calib = None
    /\ cursor_x = 0
    /\ cursor_y = 0
    /\ v_cmd = <<0, 0>>
    /\ smoothed_yaw = None
    /\ smoothed_roll = None
    /\ brow_samples = <<>>
    /\ brow_baseline = None
    /\ l_run = 0
    /\ r_run = 0
    /\ blink_active = FALSE
    /\ blink_times = <<>>
    /\ triple_blink_until = 0
    /\ prev_mouth_open = FALSE
    /\ prev_brow_up = FALSE
    /\ prev_triple_blink = FALSE
    /\ brow_up_start_time = None
    /\ brow_triggered = FALSE
    /\ last_select_click_time = 0
    /\ current_mode = 0
    /\ params = Params0
    /\ prev_time = START_TIME
    /\ last_ws_send = 0
    /\ shutdown_flag = FALSE
    /\ connected_clients = {}
    /\ calib_file = None
    /\ cal = None
    /\ ws_task = "serving"
    /\ closed = {}
    /\ stalled = {}
    /\ broadcast = Broadcast0
    /\ out = <<>>
    /\ obs = Obs0
    /\ hist = Hist0

\* cace.py lines 116-121: brow_up of this frame
CaceBrowUp(baseline, brow_norm) ==
    /\ baseline # None
    /\ brow_norm * 100 >= Val(baseline) * (100 + CACE_BROW_UP_FACTOR)

\* cace.py lines 143-144: the last two blinks within the window
CaceDoubleBlink(bt) ==
    /\ Len(bt) >= 2
    /\ bt[Len(bt)] - bt[Len(bt) - 1] <= DOUBLE_BLINK_WINDOW

\* cace.py lines 93-180: one iteration of its loop
CaceFrame(face, mar, l_ear, r_ear, brow_norm, now) ==
    /\ pc = "cace"
    /\ now >= clock
    /\ LET mouth_open == face /\ MouthOpen(mar)
           brow_up == face /\ CaceBrowUp(brow_baseline, brow_norm)
           l2 == IF face THEN EyeRun(l_run, l_ear) ELSE NoFaceRun(l_run)
           r2 == IF face THEN EyeRun(r_run, r_ear) ELSE NoFaceRun(r_run)
           is_blink == IsBlink(l2, r2)
           edge == face /\ is_blink /\ ~blink_active
           bt2 == IF edge THEN DequeAppend(blink_times, now, BLINK_TIMES_MAXLEN)
                  ELSE blink_times
           until2 == IF edge /\ CaceDoubleBlink(bt2) THEN now + DOUBLE_BLINK_HOLD
                     ELSE triple_blink_until
           double_blink == face /\ now < until2
           send == (now - last_ws_send) * SEND_FPS >= 100
       IN  /\ brow_samples' = IF face
                              THEN BrowSamples(brow_samples, brow_baseline, TRUE, brow_norm)
                              ELSE brow_samples
           /\ brow_baseline' = IF face
                               THEN BrowBaseline(brow_samples, brow_baseline, TRUE, brow_norm)
                               ELSE brow_baseline
           /\ l_run' = l2
           /\ r_run' = r2
           /\ blink_times' = bt2
           /\ triple_blink_until' = until2
           /\ blink_active' = IF ~face THEN blink_active
                              ELSE IF edge THEN TRUE
                              ELSE IF ~is_blink /\ blink_active THEN FALSE
                              ELSE blink_active
           /\ last_ws_send' = IF send THEN now ELSE last_ws_send
           /\ out' = IF send
                     THEN <<[kind |-> "Flags", mouth_open |-> mouth_open,
                             brow_up |-> brow_up, double_blink |-> double_blink]>>
                     ELSE <<>>
           /\ hist' = [hist EXCEPT !.iter = @ + 1,
                                   !.blinks = IF edge THEN Append(@, now) ELSE @,
                                   !.shut = IF face
                                            THEN l_ear < BLINK_EAR_THRESH
                                                    /\ r_ear < BLINK_EAR_THRESH
                                            ELSE @]
           /\ clock' = now
           /\ UNCHANGED <<pc, ctl, prev_mouth_open, prev_brow_up, prev_triple_blink,
                          brow_up_start_time, brow_triggered, last_select_click_time,
                          current_mode, prev_time, shutdown_flag, connected_clients,
                          calib_file, net, cal>>
           /\ obs' = [obs EXCEPT !.face = face]

\* cace.py lines 93-94 and 184-185: a failed read or the quit key ends the loop
CaceQuit ==
    /\ pc = "cace"
    /\ pc' = "done"
    /\ UNCHANGED <<clock, ctl, gest, prev_time, last_ws_send, shutdown_flag,
                   connected_clients, calib_file, net, cal, out, obs, hist>>

----------------------------------------------------------------------------
(* The control loop under head movement and runtime adjustments            *)
MaxIter == 3                    \* frames processed
MaxKeys == 2                    \* keys pressed

\* six samples of one value: what a steady head gives a capture window
Steady(v) == [i \in 1..6 |-> v]

CalibRunA ==
    [k \in StepSet |->
        [yaw |-> Steady(CASE k = "left" -> -320 [] k = "right" -> 320 [] OTHER -> 0),
         roll |-> Steady(CASE k = "tilt_left" -> 240 [] k = "tilt_right" -> -240
                         [] OTHER -> 0)]]

\* head turned right and tilted right; nearly back to neutral; turned left and
\* tilted left; eyes too close together for a yaw estimate
PosesCtl == { <<Some(200), Some(-200)>>, <<Some(35), Some(30)>>,
              <<Some(-200), Some(200)>>, <<None, Some(0)>> }
DtCtl == {18, 200}

Init ==
    /\ InitLoop
    /\ calib_file \in {None, Some(RunCalibration(CalibRunA))}

\* a frame with a face: mouth closed, eyes open, brows at rest
FaceCtl ==
    /\ hist.iter < MaxIter
    /\ \E pose \in PosesCtl, dt \in DtCtl :
          Tick(TRUE, pose[1], pose[2], 30, 30, 30, 100, clock + dt, 0, {})

NoFaceCtl ==
    /\ hist.iter < MaxIter
    /\ \E dt \in DtCtl :
          Tick(FALSE, None, None, 0, 0, 0, 0, clock + dt, 0, {})

KeysCtl ==
    /\ hist.keys < MaxKeys
    /\ \/ KeyLoad
       \/ KeySave
       \/ KeyRecenter
       \/ KeySpeedDown
       \/ KeySpeedUp
       \/ KeyQuit
       \/ KeyCalibrate(CalibRunA, Len(Steps) * CALIB_CAPTURE_TIME)

Next ==
    \/ FaceCtl
    \/ NoFaceCtl
    \/ KeyNone
    \/ KeysCtl

Spec == Init /\ [][Next]_vars

----------------------------------------------------------------------------
(* Properties of the control loop                                          *)

\* C1: after any sequence of iterations (face present or absent, calibrated or
\* not, any dt, any runtime adjustment) the cursor lies inside the frame:
\* 0 <= cursor_x < width and 0 <= cursor_y < height.
C1_CursorInFrame ==
    /\ 0 <= cursor_x /\ cursor_x < FRAME_W * 1000
    /\ 0 <= cursor_y /\ cursor_y < FRAME_H * 1000

\* the clamp has acted: the cursor is pinned at the bottom edge while the
\* velocity still points out of the frame
C1_Witness ==
    /\ obs.slew
    /\ cursor_y = (FRAME_H - 1) * 1000
    /\ v_cmd[2] > 0

\* C2: after a slew update with dt > 0 the velocity is within the speed cap in
\* force at that iteration on each axis.
C2_VelocityWithinCap ==
    (obs.slew /\ obs.dt > 0) =>
        /\ Abs(v_cmd[1]) <= obs.p.vmax_x
        /\ Abs(v_cmd[2]) <= obs.p.vmax_y

\* C3: hysteresis, each axis on its own: with a non-negligible previous velocity
\* and |delta| in [deadzone, deadzone + hysteresis], the target has magnitude
\* vmax and the sign of the previous velocity on that axis.
C3_HysteresisHoldsDirection ==
    obs.slew =>
        /\ (/\ Abs(obs.vprev[1]) > VEL_EPS
            /\ Abs(obs.dyaw) >= obs.p.deadzone_yaw
            /\ Abs(obs.dyaw) <= obs.p.deadzone_yaw + obs.p.hysteresis_deg)
           => obs.target[1] = obs.p.vmax_x * Sign(obs.vprev[1])
        /\ (/\ Abs(obs.vprev[2]) > VEL_EPS
            /\ Abs(obs.droll) >= obs.p.deadzone_roll
            /\ Abs(obs.droll) <= obs.p.deadzone_roll + obs.p.hysteresis_deg)
           => obs.target[2] = obs.p.vmax_y * Sign(obs.vprev[2])

----------------------------------------------------------------------------
(* The mouth gesture: select and click                                     *)
MaxIterMouth == 5               \* frames processed

\* frames 0.4 s and 1.5 s apart: head at rest or tilted right (the cursor moves
\* down), mouth closed or open
FramesMouth == { [pose |-> <<Some(0), Some(0)>>, mar |-> 30, dt |-> 40],
                 [pose |-> <<Some(0), Some(0)>>, mar |-> 50, dt |-> 40],
                 [pose |-> <<Some(0), Some(-200)>>, mar |-> 30, dt |-> 150],
                 [pose |-> <<Some(0), Some(-200)>>, mar |-> 50, dt |-> 150] }

InitMouth ==
    /\ InitLoop
    /\ calib_file = Some(RunCalibration(CalibRunA))

FaceMouth ==
    /\ hist.iter < MaxIterMouth
    /\ \E f \in FramesMouth :
          Tick(TRUE, f.pose[1], f.pose[2], f.mar, 30, 30, 100, clock + f.dt, 0, {})

NoFaceMouth ==
    /\ hist.iter < MaxIterMouth
    /\ Tick(FALSE, None, None, 0, 0, 0, 0, clock + 40, 0, {})

\* the saved profile is loaded once
LoadMouth == calib = None /\ KeyLoad

NextMouth ==
    \/ FaceMouth
    \/ NoFaceMouth
    \/ KeyNone
    \/ LoadMouth

SpecMouth == InitMouth /\ [][NextMouth]_vars

\* a rising edge emitted a select or click event
Emitted(e) == e.kinds # <<>>

\* C7 as stated: of any two rising edges less than the cooldown apart exactly
\* one emits; any two rising edges more than the cooldown apart both emit; any
\* two emitted events are at least the cooldown apart.
C7_AsStated ==
    \A i, j \in 1..Len(hist.edges) :
        i < j =>
            LET a == hist.edges[i]
                b == hist.edges[j]
            IN  /\ (b.t - a.t < SELECT_CLICK_COOLDOWN) => (Emitted(a) # Emitted(b))
                /\ (b.t - a.t > SELECT_CLICK_COOLDOWN) => (Emitted(a) /\ Emitted(b))
                /\ (Emitted(a) /\ Emitted(b)) => (b.t - a.t >= SELECT_CLICK_COOLDOWN)

\* C7: the rate limit counted from the last emitted event: a rising edge emits
\* exactly when no earlier rising edge emitted less than the cooldown before
\* it. So after an edge that emits, an edge less than the cooldown later does
\* not emit, the next edge at least the cooldown later does, and any two
\* emitted events are at least the cooldown apart.
C7_Cooldown ==
    \A j \in 1..Len(hist.edges) :
        Emitted(hist.edges[j]) <=>
            \A i \in 1..(j - 1) :
                Emitted(hist.edges[i]) =>
                    hist.edges[j].t - hist.edges[i].t >= SELECT_CLICK_COOLDOWN

\* an edge suppressed by the cooldown, then a later edge that emits again
C7_Witness ==
    \E i, j, k \in 1..Len(hist.edges) :
        /\ i < j /\ j < k
        /\ Emitted(hist.edges[i]) /\ ~Emitted(hist.edges[j]) /\ Emitted(hist.edges[k])

\* the last frame had a rising edge with the cooldown run out
FiredNow ==
    /\ hist.edges # <<>>
    /\ Last(hist.edges).t = prev_time
    /\ Last(hist.edges).off

\* C8: a rising edge that fires emits exactly one event: Click if the cursor is
\* in the bottom 15% of the frame at that moment (y_pct >= 85), Select otherwise.
C8_ClickIffBottom ==
    FiredNow =>
        LET sc == SelectSeq(out, LAMBDA m : m.kind \in {"Click", "Select"})
        IN  /\ Len(sc) = 1
            /\ Last(hist.edges).kinds = <<sc[1].kind>>
            /\ sc[1].kind = "Click" <=> cursor_y * 100 >= CLICK_ZONE_PCT * FRAME_H * 1000

\* a click fired in the frame that moved the cursor into the bottom zone, after
\* an earlier edge that selected
C8_Witness ==
    /\ FiredNow
    /\ obs.slew
    /\ Last(hist.edges).kinds = <<"Click">>
    /\ \E i \in 1..Len(hist.edges) : hist.edges[i].kinds = <<"Select">>

----------------------------------------------------------------------------
(* The blink gesture: mode changes                                         *)
MaxIterGesture == 7             \* frames processed

\* frames with a face: both eyes closed 0.05 s after the previous frame, or
\* both eyes open 0.05 s, 0.25 s, 0.65 s or 0.75 s after it
FramesGesture == { [ear |-> 10, dt |-> 5], [ear |-> 30, dt |-> 5], [ear |-> 30, dt |-> 25],
                   [ear |-> 30, dt |-> 65], [ear |-> 30, dt |-> 75] }

FaceGesture ==
    /\ hist.iter < MaxIterGesture
    /\ \E f \in FramesGesture :
          Tick(TRUE, Some(0), Some(0), 30, f.ear, f.ear, 100, clock + f.dt, 0, {})

NoFaceGesture ==
    /\ hist.iter < MaxIterGesture
    /\ Tick(FALSE, None, None, 0, 0, 0, 0, clock + 5, 0, {})

\* a consumer that connects before the first frame
ConnectGesture == hist.iter = 0 /\ Connect("c1")

InitGesture ==
    /\ InitLoop
    /\ calib_file = None

NextGesture ==
    \/ FaceGesture
    \/ NoFaceGesture
    \/ KeyNone
    \/ ConnectGesture

SpecGesture == InitGesture /\ [][NextGesture]_vars

\* some three registered blinks have a first-to-third span within the window
ThreeWithinWindow ==
    \E i \in 1..(Len(hist.blinks) - 2) :
        hist.blinks[i + 2] - hist.blinks[i] <= TRIPLE_BLINK_WINDOW

\* C4: three blinks registered, the first and the third within the window, and
\* no further blink: exactly one ModeChange has been emitted and the mode index
\* has advanced by exactly one step.
C4_ExactlyOneModeChange ==
    (Len(hist.blinks) = 3 /\ ThreeWithinWindow) =>
        (hist.modes = 1 /\ current_mode = NextMode(0))

\* the mode cycle of the specification
ModeCycle == <<"cursor", "move", "stagerotate">>

\* C5: the mode name in periodic cursor messages and in mode-change messages
\* follows cursor -> move -> stagerotate -> cursor: a mode-change message names
\* the mode after the changes emitted so far, a periodic message (sent earlier
\* in the frame) the mode before this frame's change.
C5_ModeNameCycle ==
    LET changed == Len(SelectSeq(out, LAMBDA m : m.kind = "ModeChange"))
    IN  \A i \in 1..Len(out) :
            /\ out[i].kind = "ModeChange" =>
                   out[i].command = ModeCycle[(hist.modes % 3) + 1]
            /\ out[i].kind = "CursorUpdate" =>
                   out[i].command = ModeCycle[((hist.modes - changed) % 3) + 1]

\* C6: no ModeChange is emitted, and the mode index stays where it started,
\* unless three registered blinks have a first-to-third span within the window.
C6_NoModeChangeWithoutTriple ==
    ~ThreeWithinWindow => (hist.modes = 0 /\ current_mode = 0)

\* blinks registered at t, t + 0.7 and t + 1.5, too slow for the window, and no
\* mode change
C6_Witness ==
    /\ Len(hist.blinks) = 3
    /\ hist.blinks[2] - hist.blinks[1] = 70
    /\ hist.blinks[3] - hist.blinks[1] = 150
    /\ hist.modes = 0
    /\ current_mode = 0

----------------------------------------------------------------------------
(* The brow baseline, in main_loop and in cace.py                          *)
MaxAfterBrow == 3               \* frames processed beyond the learning window

\* nothing has disturbed the learning so far: every frame gave a sample, every
\* sample is the resting brow distance, and the eyes were never closed
Undisturbed ==
    /\ hist.iter = Len(brow_samples)
    /\ hist.blinks = <<>>
    /\ \A i \in 1..Len(brow_samples) : brow_samples[i] = 100

\* frames while the baseline is learned: a resting face; and, at most once, a
\* frame with the brows raised, with the eyes closed, or without a face
FramesLearn ==
    { [face |-> TRUE, ear |-> 30, brow |-> 100] }
    \cup (IF Undisturbed
          THEN { [face |-> TRUE, ear |-> 30, brow |-> 130],
                 [face |-> TRUE, ear |-> 10, brow |-> 100],
                 [face |-> FALSE, ear |-> 0, brow |-> 0] }
          ELSE {})

\* frames after that: brows at rest, raised, lowered, eyes closed, mouth open,
\* no face
FramesAfter ==
    { [face |-> TRUE, ear |-> 30, mar |-> 30, brow |-> 100],
      [face |-> TRUE, ear |-> 30, mar |-> 30, brow |-> 130],
      [face |-> TRUE, ear |-> 30, mar |-> 30, brow |-> 70],
      [face |-> TRUE, ear |-> 10, mar |-> 30, brow |-> 130],
      [face |-> TRUE, ear |-> 30, mar |-> 50, brow |-> 130],
      [face |-> FALSE, ear |-> 0, mar |-> 0, brow |-> 0] }

InitBrow ==
    \/ InitLoop /\ calib_file = None
    \/ InitCace

LearnBrow ==
    /\ brow_baseline = None
    /\ \E f \in FramesLearn :
          Tick(f.face, Some(0), Some(0), 30, f.ear, f.ear, f.brow, clock + 3, 0, {})

AfterBrow ==
    /\ brow_baseline # None
    /\ hist.iter < BROW_BASELINE_FRAMES + MaxAfterBrow
    /\ \E f \in FramesAfter :
          Tick(f.face, Some(0), Some(0), f.mar, f.ear, f.ear, f.brow, clock + 3, 0, {})

LearnCace ==
    /\ brow_baseline = None
    /\ \E f \in FramesLearn : CaceFrame(f.face, 30, f.ear, f.ear, f.brow, clock + 3)

AfterCace ==
    /\ brow_baseline # None
    /\ hist.iter < BROW_BASELINE_FRAMES + MaxAfterBrow
    /\ \E f \in FramesAfter : CaceFrame(f.face, f.mar, f.ear, f.ear, f.brow, clock + 3)

NextBrow ==
    \/ LearnBrow
    \/ AfterBrow
    \/ KeyNone
    \/ LearnCace
    \/ AfterCace
    \/ CaceQuit

SpecBrow == InitBrow /\ [][NextBrow]_vars

\* C9: once the baseline is set, no step changes it or the sample window it
\* was computed from.
C9_BaselineImmutable ==
    [][brow_baseline # None =>
          (brow_baseline' = brow_baseline /\ brow_samples' = brow_samples)]_vars

\* the baseline was set from a full window that holds one raised-brow sample,
\* and a later frame of main_loop, brows raised, has been processed
C9_Witness ==
    /\ brow_baseline # None
    /\ Len(brow_samples) = BROW_BASELINE_FRAMES
    /\ \E i \in 1..Len(brow_samples) : brow_samples[i] # Val(brow_baseline)
    /\ prev_brow_up

----------------------------------------------------------------------------
(* Calibration runs                                                        *)
MaxIterCalib == 2               \* frames processed by the main loop

\* the pose a stage asks for, held steady, as <<yaw, roll>>
PoseAsked(k) ==
    CASE k = "neutral" -> <<0, 0>>
      [] k = "left" -> <<-320, 0>>
      [] k = "right" -> <<320, 0>>
      [] k = "tilt_left" -> <<0, 240>>
      [] k = "tilt_right" -> <<0, -240>>

\* a wider movement, off centre and wobbling
PoseWide(k) ==
    CASE k = "neutral" -> <<20, -10>>
      [] k = "left" -> <<-480, 0>>
      [] k = "right" -> <<350, 10>>
      [] k = "tilt_left" -> <<0, 400>>
      [] k = "tilt_right" -> <<10, -130>>

\* what the camera may see during stage k: the pose asked for, at 6 or at 5
\* frames per capture window; the wider pose; no face at all; a face too
\* narrow for a yaw estimate
Scenes(k) ==
    { [face |-> TRUE, yaw |-> Some(PoseAsked(k)[1]), roll |-> Some(PoseAsked(k)[2]),
       wobble |-> 0, dt |-> 25],
      [face |-> TRUE, yaw |-> Some(PoseAsked(k)[1]), roll |-> Some(PoseAsked(k)[2]),
       wobble |-> 0, dt |-> 30],
      [face |-> TRUE, yaw |-> Some(PoseWide(k)[1]), roll |-> Some(PoseWide(k)[2]),
       wobble |-> 10, dt |-> 25],
      NoScene,
      [face |-> TRUE, yaw |-> None, roll |-> Some(PoseAsked(k)[2]),
       wobble |-> 0, dt |-> 25] }

InitCalib ==
    /\ InitLoop
    /\ calib_file = None

\* a frame of the main loop, head turned right
FaceCalib ==
    /\ hist.iter < MaxIterCalib
    /\ Tick(TRUE, Some(100), Some(0), 30, 30, 30, 100, clock + 3, 0, {})

\* the calibration key, pressed once
StartCalib == calib = None /\ KeyCalibrateStart

\* SPACE is pressed on the first or on the second frame of a stage's wait loop
WaitCalib ==
    /\ pc = "calib"
    /\ \E space \in BOOLEAN, scene \in Scenes(Steps[Val(cal).stage]) :
          /\ space \/ (~Val(cal).idle /\ scene = NoScene)
          /\ CalWait(space, scene)

NextCalib ==
    \/ FaceCalib
    \/ KeyNone
    \/ StartCalib
    \/ WaitCalib
    \/ CalCapture
    \/ CalStageEnd

SpecCalib == InitCalib /\ [][NextCalib]_vars

\* C10: the profile a calibration run returns has both deadzones at least the
\* floor, each the larger of the floor and a quarter of the range of motion of
\* its axis, whatever the stages collected.
C10_DeadzoneFloor ==
    calib # None =>
        LET c == Val(calib)
            rom_yaw == Max(Abs(c.yaw["right"] - c.yaw["neutral"]),
                           Abs(c.yaw["neutral"] - c.yaw["left"]))
            rom_roll == Max(Abs(c.roll["tilt_left"] - c.roll["neutral"]),
                            Abs(c.roll["tilt_right"] - c.roll["neutral"]))
        IN  /\ c.deadzone_yaw >= DEADZONE_FLOOR
            /\ c.deadzone_roll >= DEADZONE_FLOOR
            /\ c.deadzone_yaw = Max(DEADZONE_FLOOR, RoundDiv(rom_yaw, ROM_FRACTION_DIV))
            /\ c.deadzone_roll = Max(DEADZONE_FLOOR, RoundDiv(rom_roll, ROM_FRACTION_DIV))

\* a run with a stage that collected nothing and a stage with too few samples,
\* whose yaw deadzone is above the floor and whose roll deadzone is the floor
C10_Witness ==
    /\ calib # None
    /\ Len(hist.counts) = Len(Steps)
    /\ \E i \in 1..Len(hist.counts) : hist.counts[i] = <<0, 0>>
    /\ \E i \in 1..Len(hist.counts) : hist.counts[i] = <<CALIB_MIN_SAMPLES, CALIB_MIN_SAMPLES>>
    /\ Val(calib).deadzone_yaw > DEADZONE_FLOOR
    /\ Val(calib).deadzone_roll = DEADZONE_FLOOR

----------------------------------------------------------------------------
(* Runtime adjustment of the parameters                                    *)
MaxIterAdjust == 6              \* frames processed

InitAdjust ==
    /\ InitLoop
    /\ calib_file \in {None, Some(RunCalibration(CalibRunA))}

\* a frame with a resting face, head turned slightly right
FaceAdjust ==
    /\ hist.iter < MaxIterAdjust
    /\ Tick(TRUE, Some(50), Some(0), 30, 30, 30, 100, clock + 3, 0, {})

\* the adjustment keys, and the keys that take the deadzones from a profile
KeysAdjust ==
    \/ KeyYawDeadzoneDown
    \/ KeyYawDeadzoneUp
    \/ KeyRollDeadzoneDown
    \/ KeyRollDeadzoneUp
    \/ KeySpeedDown
    \/ KeySpeedUp
    \/ KeyLoad
    \/ KeyCalibrate(CalibRunA, Len(Steps) * CALIB_CAPTURE_TIME)

NextAdjust ==
    \/ FaceAdjust
    \/ KeyNone
    \/ KeysAdjust

SpecAdjust == InitAdjust /\ [][NextAdjust]_vars

\* C11: in every reachable state both deadzones in force are at least the
\* floor that calibration enforces.
C11_ParamsDeadzoneFloor ==
    /\ params.deadzone_yaw >= DEADZONE_FLOOR
    /\ params.deadzone_roll >= DEADZONE_FLOOR

----------------------------------------------------------------------------
(* A constant pose fed to the calibrated loop                              *)
MaxIterSettle == 12             \* frames processed

\* before calibration: head turned right and tilted right, or at rest
PosesBefore == { <<Some(320), Some(-240)>>, <<Some(0), Some(0)>> }

\* the constant pose: inside both deadzones of the stored profile, at their
\* centre, or outside the yaw deadzone
PosesConst == { <<Some(50), Some(-40)>>, <<Some(0), Some(0)>>, <<Some(200), Some(0)>> }

InitSettle ==
    /\ InitLoop
    /\ calib_file = Some(RunCalibration(CalibRunA))

\* frames before the loop is calibrated
BeforeSettle ==
    /\ calib = None
    /\ hist.iter < 2
    /\ \E pose \in PosesBefore :
          Tick(TRUE, pose[1], pose[2], 30, 30, 30, 100, clock + 3, 0, {})

\* frames of the calibrated loop: the same pose on every one of them
ConstSettle ==
    /\ calib # None
    /\ hist.iter < MaxIterSettle
    /\ \E pose \in PosesConst :
          /\ obs.slew => pose = obs.pose
          /\ Tick(TRUE, pose[1], pose[2], 30, 30, 30, 100, clock + 3, 0, {})

\* the loop is calibrated once, from the stored profile or by a run
CalibrateSettle ==
    /\ calib = None
    /\ \/ KeyLoad
       \/ KeyCalibrate(CalibRunA, Len(Steps) * CALIB_CAPTURE_TIME)

NextSettle ==
    \/ BeforeSettle
    \/ ConstSettle
    \/ KeyNone
    \/ CalibrateSettle

SpecSettle == InitSettle /\ [][NextSettle]_vars

\* the constant pose lies strictly inside the deadzone on both axes
ConstInsideDeadzone ==
    /\ obs.pose[1] # None /\ obs.pose[2] # None
    /\ Abs(Val(obs.pose[1]) - Val(calib).yaw["neutral"]) < obs.p.deadzone_yaw
    /\ Abs(Val(obs.pose[2]) - Val(calib).roll["neutral"]) < obs.p.deadzone_roll

SettleStep == pc = "frame" /\ pc' = "key" /\ obs'.slew /\ obs'.pose[1] # None /\ obs'.pose[2] # None

----------------------------------------------------------------------------
(* The blink timestamp window                                              *)
MaxIterBlink == 9               \* frames processed

\* both eyes closed or open 0.05 s after the previous frame, or open 0.65 s
\* after it
FramesBlink == { [ear |-> 10, dt |-> 5], [ear |-> 30, dt |-> 5], [ear |-> 30, dt |-> 65] }

InitBlink ==
    /\ InitLoop
    /\ calib_file = None

FaceBlink ==
    /\ hist.iter < MaxIterBlink
    /\ \E f \in FramesBlink :
          Tick(TRUE, Some(0), Some(0), 30, f.ear, f.ear, 100, clock + f.dt, 0, {})

NextBlink ==
    \/ FaceBlink
    \/ KeyNone

SpecBlink == InitBlink /\ [][NextBlink]_vars

\* C13 as stated: in every state no timestamp in the window is older than
\* TRIPLE_BLINK_WINDOW relative to the current time, and the window holds at
\* most 4 entries.
C13_AsStated ==
    /\ \A i \in 1..Len(blink_times) : clock - blink_times[i] <= TRIPLE_BLINK_WINDOW
    /\ Len(blink_times) <= BLINK_TIMES_MAXLEN

\* C13: the window is the tail of the blinks registered so far: those no older
\* than TRIPLE_BLINK_WINDOW relative to the newest blink, and of them the
\* last 4 at most. Blinks are evicted only when a new one is registered.
C13_WindowOfNewest ==
    LET n == Len(hist.blinks)
        recent == {i \in 1..n : hist.blinks[n] - hist.blinks[i] <= TRIPLE_BLINK_WINDOW}
        m == Min(BLINK_TIMES_MAXLEN, Cardinality(recent))
    IN  /\ blink_times = SubSeq(hist.blinks, n - m + 1, n)
        /\ Len(blink_times) <= BLINK_TIMES_MAXLEN
        /\ \A i \in 1..Len(blink_times) :
               Last(blink_times) - blink_times[i] <= TRIPLE_BLINK_WINDOW

\* a blink was evicted for its age when the next one was registered, and the
\* blink kept has since become older than the window itself
C13_Witness ==
    /\ Len(hist.blinks) = 2
    /\ Len(blink_times) = 1
    /\ clock - blink_times[1] > TRIPLE_BLINK_WINDOW

\* C20: a capture window is over at most one frame after its 1.5 s, whatever
\* the camera sees, and the run can always take its next step then; when the
\* run returns, the profile has a yaw and a roll value for each of the five
\* stages, and the value is 0.0 for a window that collected no sample.
C20_CaptureEnds ==
    /\ [](pc = "calib" /\ Val(cal).phase = "capture" =>
            /\ clock - Val(cal).start_time < CALIB_CAPTURE_TIME + Val(cal).scene.dt
            /\ ENABLED (CalCapture \/ CalStageEnd))
    /\ [][pc = "calib" /\ pc' # "calib" =>
            /\ Val(cal).stage = Len(Steps)
            /\ calib' # None
            /\ DOMAIN Val(calib').yaw = StepSet
            /\ DOMAIN Val(calib').roll = StepSet
            /\ Len(hist'.counts) = Len(Steps)
            /\ \A i \in 1..Len(Steps) :
                  /\ hist'.counts[i][1] = 0 => Val(calib').yaw[Steps[i]] = 0
                  /\ hist'.counts[i][2] = 0 => Val(calib').roll[Steps[i]] = 0]_vars

\* a run during which the camera never saw a face has returned its profile
C20_Witness ==
    /\ pc = "frame"
    /\ calib # None
    /\ Len(hist.counts) = Len(Steps)
    /\ \A i \in 1..Len(Steps) : hist.counts[i] = <<0, 0>>
    /\ \A k \in StepSet : Val(calib).yaw[k] = 0 /\ Val(calib).roll[k] = 0

\* a capture window ends and its two values are stored
StageStored == pc = "calib" /\ Len(hist'.counts) = Len(hist.counts) + 1

\* C21: for each stage and each axis, the value stored is 0.0 when fewer than
\* 5 samples were collected for that axis and the median of the samples when
\* at least 5 were collected.
C21_MedianFromFive ==
    [][StageStored =>
          LET c == Val(cal)
              k == Steps[c.stage]
              last == c.stage = Len(Steps)
              yaw_stored == IF last THEN Val(calib').yaw[k] ELSE Val(cal').yaw[c.stage]
              roll_stored == IF last THEN Val(calib').roll[k] ELSE Val(cal').roll[c.stage]
          IN  /\ yaw_stored = IF Len(c.samples_yaw) < CALIB_MIN_SAMPLES THEN 0
                              ELSE Median(c.samples_yaw)
              /\ roll_stored = IF Len(c.samples_roll) < CALIB_MIN_SAMPLES THEN 0
                               ELSE Median(c.samples_roll)]_vars

\* the order of the stages and the keys of a profile
StageOrder == <<"neutral", "left", "right", "tilt_left", "tilt_right">>
ProfileKeys == {"yaw", "roll", "rom_yaw", "rom_roll", "deadzone_yaw", "deadzone_roll"}

\* C27: a calibration run goes through neutral, left, right, tilt_left and
\* tilt_right in this order, each once; in each stage the wait for SPACE comes
\* first and the capture follows it; the profile returned after the fifth
\* capture has a yaw and a roll value for each of the five poses and rom_yaw,
\* rom_roll, deadzone_yaw and deadzone_roll.
C27_StagesInOrder ==
    /\ [](pc = "calib" =>
            /\ Len(hist.counts) < Len(StageOrder)
            /\ Steps[Val(cal).stage] = StageOrder[Len(hist.counts) + 1])
    /\ [][pc # "calib" /\ pc' = "calib" =>
            Val(cal').phase = "wait" /\ hist'.counts = <<>>]_vars
    /\ [][pc = "calib" =>
            \/ /\ pc' = "calib"
               /\ Val(cal').phase = Val(cal).phase
               /\ hist'.counts = hist.counts
            \/ /\ pc' = "calib"
               /\ Val(cal).phase = "wait"
               /\ Val(cal').phase = "capture"
               /\ hist'.counts = hist.counts
            \/ /\ pc' = "calib"
               /\ Val(cal).phase = "capture"
               /\ Val(cal').phase = "wait"
               /\ Len(hist'.counts) = Len(hist.counts) + 1
            \/ /\ pc' # "calib"
               /\ Val(cal).phase = "capture"
               /\ Len(hist'.counts) = Len(StageOrder)
               /\ calib' # None
               /\ DOMAIN Val(calib') = ProfileKeys
               /\ DOMAIN Val(calib').yaw = {StageOrder[i] : i \in 1..Len(StageOrder)}
               /\ DOMAIN Val(calib').roll = {StageOrder[i] : i \in 1..Len(StageOrder)}]_vars

\* a run whose five captures each collected six samples has returned
C27_Witness ==
    /\ pc = "frame"
    /\ calib # None
    /\ Len(hist.counts) = Len(StageOrder)
    /\ \A i \in 1..Len(StageOrder) : hist.counts[i] = <<6, 6>>
    /\ Val(calib).yaw["left"] < 0
    /\ Val(calib).yaw["right"] > 0

-----------------------------------------------------------------------------
(* Frames without a face, in AlexVision.py and in cace.py                  *)
MaxAfterLost == 6               \* frames after the brow baseline is learned

\* after the baseline: the head turned and the eyes closed, the head turned
\* and the eyes open, or no face
FramesLost ==
    { [face |-> TRUE, ear |-> 10], [face |-> TRUE, ear |-> 30],
      [face |-> FALSE, ear |-> 0] }

InitLost ==
    \/ InitLoop /\ calib_file = Some(RunCalibration(CalibRunA))
    \/ InitCace

LearnLost ==
    /\ brow_baseline = None
    /\ Tick(TRUE, Some(0), Some(0), 30, 30, 30, 100, clock + 3, 0, {})

AfterLost ==
    /\ brow_baseline # None
    /\ hist.iter < BROW_BASELINE_FRAMES + MaxAfterLost
    /\ \E f \in FramesLost :
          Tick(f.face, Some(320), Some(-240), 30, f.ear, f.ear, 130, clock + 5, 0, {})

LoadLost == brow_baseline # None /\ calib = None /\ KeyLoad

LearnLostCace ==
    /\ brow_baseline = None
    /\ CaceFrame(TRUE, 30, 30, 30, 100, clock + 3)

AfterLostCace ==
    /\ brow_baseline # None
    /\ hist.iter < BROW_BASELINE_FRAMES + MaxAfterLost
    /\ \E f \in FramesLost : CaceFrame(f.face, 30, f.ear, f.ear, 130, clock + 5)

NextLost ==
    \/ LearnLost
    \/ AfterLost
    \/ LoadLost
    \/ KeyNone
    \/ LearnLostCace
    \/ AfterLostCace
    \/ CaceQuit

SpecLost == InitLost /\ [][NextLost]_vars

\* a frame was processed and no face was found in it
NoFaceTick == hist'.iter = hist.iter + 1 /\ ~obs'.face

\* C14: a tick without a face sets the velocity to (0, 0) and both eye run
\* counters to 0, and leaves the cursor position, the smoothed yaw and roll,
\* the calibration profile, the parameters, the brow baseline and the mode
\* index as they were.
C14_NoFaceTick ==
    [][NoFaceTick =>
          /\ v_cmd' = <<0, 0>>
          /\ l_run' = 0
          /\ r_run' = 0
          /\ UNCHANGED <<cursor_x, cursor_y, smoothed_yaw, smoothed_roll, calib,
                         params, brow_baseline, current_mode>>]_vars

\* the face is lost while the cursor moves away from the centre, in the middle
\* of a blink, in the second mode, with the baseline learned
C14_Witness ==
    /\ pc = "key"
    /\ ~obs.face
    /\ obs.vprev # <<0, 0>>
    /\ v_cmd = <<0, 0>>
    /\ calib # None
    /\ cursor_x # FRAME_W * 500
    /\ blink_active
    /\ l_run = 0
    /\ current_mode = 1
    /\ brow_baseline # None

-----------------------------------------------------------------------------
(* Broadcasts, send by send, while consumers come, go and stop reading     *)
MaxIterBroadcast == 2           \* frames processed
Clients == {"c1", "c2", "c3"}

\* a resting face in front of the camera, the mouth closed or open; a frame
\* takes longer than WS_UPDATE_RATE, so every iteration has its cursor update
FrameBroadcast ==
    /\ hist.iter < MaxIterBroadcast
    /\ \E mar \in {30, 50} :
          TickSending(TRUE, Some(0), Some(0), mar, 30, 30, 100, clock + 5, 0)

InitBroadcast == InitLoop /\ calib_file = None

HandlersBroadcast ==
    \E c \in Clients : Connect(c) \/ Close(c) \/ Disconnect(c) \/ Stall(c)

\* the steps of main_loop inside a broadcast
SendStep ==
    \/ \E c \in Clients : NextConsumer(c)
    \/ SendReturn
    \/ SendRaise
    \/ SetChanged
    \/ BroadcastEnd

NextBroadcast ==
    \/ FrameBroadcast
    \/ SendStep
    \/ KeyNone
    \/ KeyQuit
    \/ HandlersBroadcast
    \/ ServerStop

SpecBroadcast == InitBroadcast /\ [][NextBroadcast]_vars

\* a broadcast is left, by its return or by an exception
LeavesBroadcast ==
    pc = "send" /\ (pc' # "send" \/ broadcast'.msgs # broadcast.msgs)

\* C15: when a broadcast in which a send failed is left, the consumers whose
\* send failed are out of the registry, and every other consumer that was
\* registered when the broadcast began and has not closed its connection has
\* been sent the message and is still registered.
C15_OnlyFailedRemoved ==
    [][(LeavesBroadcast /\ broadcast.disconnected # {}) =>
          /\ broadcast.disconnected \cap connected_clients' = {}
          /\ \A c \in (broadcast.start \cap connected_clients)
                          \ (broadcast.disconnected \cup closed) :
                c \in broadcast.delivered /\ c \in connected_clients']_vars

\* C16: an iteration in which a send failed is not left by an exception.
C16_FailureStaysInBroadcast == ~(broadcast.failed # {} /\ broadcast.error)

\* C17: while main_loop is in a broadcast it can take its next step, whatever
\* the consumers do.
C17_SendNeverBlocks == pc = "send" => ENABLED SendStep

-----------------------------------------------------------------------------
(* A calibration run while consumers are served                            *)
MaxIterServe == 3               \* frames processed by the main loop

InitServe == InitLoop /\ calib_file = None

FaceServe ==
    /\ hist.iter < MaxIterServe
    /\ Tick(TRUE, Some(100), Some(0), 30, 30, 30, 100, clock + 3, 0, {})

ConnectServe == \E c \in Clients : Connect(c)

\* the calibration key, pressed once
StartServe == calib = None /\ KeyCalibrateStart

\* the user holds the pose asked for and presses SPACE on the first or on the
\* second frame of a stage's wait loop
WaitServe ==
    /\ pc = "calib"
    /\ \E space \in BOOLEAN :
          /\ space \/ ~Val(cal).idle
          /\ LET k == Steps[Val(cal).stage]
             IN  CalWait(space, [face |-> TRUE, yaw |-> Some(PoseAsked(k)[1]),
                                 roll |-> Some(PoseAsked(k)[2]), wobble |-> 0,
                                 dt |-> 25])

NextServe ==
    \/ FaceServe
    \/ KeyNone
    \/ ConnectServe
    \/ StartServe
    \/ WaitServe
    \/ CalCapture
    \/ CalStageEnd

SpecServe == InitServe /\ [][NextServe]_vars

\* C18: while a calibration run is in progress and a consumer is registered,
\* the time since the last periodic cursor update stays below the length of
\* one capture window (which is 45 times the update interval).
C18_UpdatesDuringCalibration ==
    (pc = "calib" /\ connected_clients # {}) =>
        clock - last_ws_send < CALIB_CAPTURE_TIME

-----------------------------------------------------------------------------
(* Shutdown: the quit key or an exception ends main_loop, then the server  *)
MaxIterShutdown == 2            \* frames processed

InitShutdown == InitLoop /\ calib_file = None

FrameShutdown ==
    /\ hist.iter < MaxIterShutdown
    /\ TickSending(TRUE, Some(0), Some(0), 30, 30, 30, 100, clock + 5, 0)

HandlersShutdown == \E c \in {"c1", "c2"} : Connect(c) \/ Disconnect(c)

NextShutdown ==
    \/ FrameShutdown
    \/ SendStep
    \/ KeyNone
    \/ KeyQuit
    \/ HandlersShutdown
    \/ ServerStop

\* the event loop runs the server task once it can run: it wakes from the
\* sleep of line 460 every 0.1 s, and a cancelled task is resumed
SpecShutdown == InitShutdown /\ [][NextShutdown]_vars /\ WF_vars(ServerStop)

\* C19: once the shutdown flag is set it stays set, main_loop has left its
\* frame loop and changes no control or gesture state and broadcasts nothing
\* any more, the server eventually stops and from then on no consumer is
\* added to the registry, and then both tasks have ended.
C19_Shutdown ==
    /\ [](shutdown_flag => pc = "done")
    /\ [][shutdown_flag =>
             /\ shutdown_flag'
             /\ UNCHANGED <<pc, ctl, gest, prev_time, last_ws_send, out, broadcast>>]_vars
    /\ [][ws_task = "done" =>
             /\ ws_task' = "done"
             /\ connected_clients' \subseteq connected_clients]_vars
    /\ (shutdown_flag ~> (ws_task = "done" /\ pc = "done"))

\* the loop has broadcast to a consumer and has been quit, the server has
\* stopped and closed the connection of the consumer still registered
C19_Witness ==
    /\ shutdown_flag
    /\ pc = "done"
    /\ ws_task = "done"
    /\ out # <<>>
    /\ broadcast.delivered # {}
    /\ closed # {}

-----------------------------------------------------------------------------
(* The adjustment keys after calibration runs with a narrow and with a     *)
(* wide range of motion                                                    *)
MaxIterRange == 5               \* frames processed

\* the head tilted far over: roll_from_eyes (lines 181-205) returns the angle
\* of the eye line, any value between -180 and 180 degrees
CalibRunTilted ==
    [k \in StepSet |->
        [yaw |-> Steady(CASE k = "left" -> -600 [] k = "right" -> 600 [] OTHER -> 0),
         roll |-> Steady(CASE k = "tilt_left" -> 1300 [] k = "tilt_right" -> -400
                         [] OTHER -> 0)]]

InitRange == InitLoop /\ calib_file = None

FaceRange ==
    /\ hist.iter < MaxIterRange
    /\ Tick(TRUE, Some(50), Some(0), 30, 30, 30, 100, clock + 3, 0, {})

CalibrateRange ==
    \E run \in {CalibRunA, CalibRunTilted} :
        KeyCalibrate(run, Len(Steps) * CALIB_CAPTURE_TIME)

KeysRange ==
    \/ KeyYawDeadzoneDown
    \/ KeyYawDeadzoneUp
    \/ KeyRollDeadzoneDown
    \/ KeyRollDeadzoneUp
    \/ KeySpeedDown
    \/ KeySpeedUp

NextRange ==
    \/ FaceRange
    \/ KeyNone
    \/ KeysRange
    \/ CalibrateRange

SpecRange == InitRange /\ [][NextRange]_vars

\* a key changes the parameters: no calibration run (which takes time) and no
\* load (which replaces the profile)
AdjustmentStep ==
    pc = "key" /\ clock' = clock /\ calib' = calib /\ params' # params

\* C22: after every adjustment the two speed caps are equal and within
\* [100, 2000] px/s, and a deadzone the adjustment changed is within its range,
\* [0.5, 30] for yaw and [1.0, 30] for roll.
C22_AdjustmentsInRange ==
    [][AdjustmentStep =>
          /\ params'.vmax_x = params'.vmax_y
          /\ params'.vmax_x >= 100000 /\ params'.vmax_x <= 2000000
          /\ params'.deadzone_yaw # params.deadzone_yaw =>
                params'.deadzone_yaw >= 5 /\ params'.deadzone_yaw <= 300
          /\ params'.deadzone_roll # params.deadzone_roll =>
                params'.deadzone_roll >= 10 /\ params'.deadzone_roll <= 300]_vars

-----------------------------------------------------------------------------
(* The brow hold: Delete                                                   *)
MaxAfterHold == 7               \* frames after the brow baseline is learned

\* after the baseline: the brows up, after a long or a short frame time; at
\* rest; up with one eye closed; up with the mouth open; no face
FramesHold ==
    { [face |-> TRUE, l_ear |-> 30, r_ear |-> 30, mar |-> 30, brow |-> 130, dt |-> 35],
      [face |-> TRUE, l_ear |-> 30, r_ear |-> 30, mar |-> 30, brow |-> 130, dt |-> 20],
      [face |-> TRUE, l_ear |-> 30, r_ear |-> 30, mar |-> 30, brow |-> 100, dt |-> 35],
      [face |-> TRUE, l_ear |-> 10, r_ear |-> 30, mar |-> 30, brow |-> 130, dt |-> 35],
      [face |-> TRUE, l_ear |-> 30, r_ear |-> 30, mar |-> 50, brow |-> 130, dt |-> 35],
      [face |-> FALSE, l_ear |-> 0, r_ear |-> 0, mar |-> 0, brow |-> 0, dt |-> 35] }

InitHold == InitLoop /\ calib_file = None

LearnHold ==
    /\ brow_baseline = None
    /\ Tick(TRUE, Some(0), Some(0), 30, 30, 30, 100, clock + 3, 0, {})

AfterHold ==
    /\ brow_baseline # None
    /\ hist.iter < BROW_BASELINE_FRAMES + MaxAfterHold
    /\ \E f \in FramesHold :
          Tick(f.face, Some(0), Some(0), f.mar, f.l_ear, f.r_ear, f.brow, clock + f.dt, 0, {})

NextHold ==
    \/ LearnHold
    \/ AfterHold
    \/ KeyNone

SpecHold == InitHold /\ [][NextHold]_vars

\* a frame is processed
FrameStep == hist'.iter = hist.iter + 1

\* the messages of the last iteration include one of this kind
Sent(kind) == \E i \in 1..Len(out) : out[i].kind = kind

\* C23: a frame emits Delete exactly when the brows have been up in every
\* frame for at least BROW_HOLD_TIME up to this one and no Delete has been
\* emitted in those frames before; so Delete is emitted once per hold, at the
\* first frame at which the hold time has elapsed.
C23_DeleteOncePerHold ==
    /\ [](hist.run_deletes <= 1)
    /\ [][FrameStep =>
             (Sent("Delete")' <=>
                 /\ hist'.up_since # None
                 /\ prev_time' - Val(hist'.up_since) >= BROW_HOLD_TIME
                 /\ (hist.up_since = None \/ hist.run_deletes = 0))]_vars

\* the brows have been up for twice the hold time and more: one Delete
C23_Witness ==
    /\ hist.up_since # None
    /\ prev_time - Val(hist.up_since) >= 2 * BROW_HOLD_TIME
    /\ hist.run_deletes = 1

\* C24: in a frame with the mouth open or an eye closed brow_up is false, no
\* Delete is emitted, and the brow timer and its fired flag are reset, so that
\* a hold has to begin again.
C24_BrowSuppressed ==
    [][(FrameStep /\ obs'.face /\ (obs'.mouth \/ ~obs'.eyes)) =>
          /\ ~obs'.brow
          /\ ~Sent("Delete")'
          /\ brow_up_start_time' = None
          /\ ~brow_triggered'
          /\ ~prev_brow_up'
          /\ hist'.up_since = None]_vars

\* the brows were up in two short frames, 0.4 s of the hold; then the mouth
\* opens with the brows still raised
C24_Witness ==
    /\ hist.iter = BROW_BASELINE_FRAMES + 3
    /\ clock = START_TIME + BROW_BASELINE_FRAMES * 3 + 20 + 20 + 35
    /\ obs.mouth
    /\ ~obs.brow
    /\ brow_up_start_time = None

-----------------------------------------------------------------------------
(* The mouth gesture while the rate limit is in force (SpecMouth)          *)

\* at time t a select or click was emitted less than the cooldown ago
OnCooldown(t) ==
    \E i \in 1..Len(hist.edges) :
        Emitted(hist.edges[i]) /\ t - hist.edges[i].t < SELECT_CLICK_COOLDOWN

\* C25: a frame emits Select or Click only if the mouth is open in it and was
\* not open in the frame before, so an edge that found the cooldown in force
\* is not made up for while the mouth stays open; and a frame in which the
\* mouth opens during the cooldown emits neither and leaves the time of the
\* rate limit as it was.
C25_SuppressedEdgeIsDropped ==
    [][FrameStep =>
          /\ (Sent("Select")' \/ Sent("Click")') => (obs'.mouth /\ ~obs.mouth)
          /\ (obs'.mouth /\ ~obs.mouth /\ OnCooldown(prev_time')) =>
                /\ ~Sent("Select")' /\ ~Sent("Click")'
                /\ last_select_click_time' = last_select_click_time]_vars

\* the mouth opened during the cooldown of an earlier event and has stayed
\* open until after its end: nothing more has been emitted
C25_Witness ==
    /\ Len(hist.edges) = 2
    /\ Emitted(hist.edges[1])
    /\ ~Emitted(hist.edges[2])
    /\ obs.mouth
    /\ prev_time > hist.edges[2].t
    /\ prev_time - hist.edges[1].t >= SELECT_CLICK_COOLDOWN
    /\ last_select_click_time = hist.edges[1].t

-----------------------------------------------------------------------------
(* Smoothing of the pose estimates                                         *)
MaxIterSmooth == 4              \* frames processed

\* the head turned far left, turned left, straight, turned far right; or a
\* face too narrow for a yaw estimate
YawsSmooth == {Some(-500), Some(-150), Some(0), Some(500), None}

InitSmooth == InitLoop /\ calib_file = None

FaceSmooth ==
    /\ hist.iter < MaxIterSmooth
    /\ \E yaw_new \in YawsSmooth :
          Tick(TRUE, yaw_new, Some(0), 30, 30, 30, 100, clock + 3, 0, {})

NoFaceSmooth ==
    /\ hist.iter < MaxIterSmooth
    /\ Tick(FALSE, None, None, 0, 0, 0, 0, clock + 3, 0, {})

NextSmooth ==
    \/ FaceSmooth
    \/ NoFaceSmooth
    \/ KeyNone

SpecSmooth == InitSmooth /\ [][NextSmooth]_vars

\* C26: in a frame with a yaw estimate, smoothed_yaw becomes the estimate if
\* it is the first, stays as it is if the estimate differs from it by more
\* than 60 units (600 tenths), and otherwise becomes alpha * smoothed +
\* (1 - alpha) * new.
C26_YawJumpRejected ==
    [][(FrameStep /\ obs'.face /\ obs'.pose[1] # None) =>
          LET new == Val(obs'.pose[1])
          IN  smoothed_yaw' =
                 IF smoothed_yaw = None THEN Some(new)
                 ELSE IF Abs(new - Val(smoothed_yaw)) > 600 THEN smoothed_yaw
                 ELSE Some(RoundDiv(YAW_SMOOTHING * Val(smoothed_yaw)
                                      + (10 - YAW_SMOOTHING) * new, 10))]_vars

-----------------------------------------------------------------------------
(* Recentering the neutral pose (SpecRecenter)                             *)
MaxIterRecenter == 4            \* frames processed

PosesRecenter == { <<Some(200), Some(-100)>>, <<Some(-150), Some(50)>>,
                   <<None, Some(0)>> }

InitRecenter == InitLoop /\ calib_file = None

FaceRecenter ==
    /\ hist.iter < MaxIterRecenter
    /\ \E pose \in PosesRecenter :
          Tick(TRUE, pose[1], pose[2], 30, 30, 30, 100, clock + 3, 0, {})

NoFaceRecenter ==
    /\ hist.iter < MaxIterRecenter
    /\ Tick(FALSE, None, None, 0, 0, 0, 0, clock + 3, 0, {})

\* the calibration key, pressed once
CalibrateRecenter ==
    /\ calib = None
    /\ KeyCalibrate(CalibRunA, Len(Steps) * CALIB_CAPTURE_TIME)

NextRecenter ==
    \/ FaceRecenter
    \/ NoFaceRecenter
    \/ KeyNone
    \/ CalibrateRecenter
    \/ KeyRecenter

SpecRecenter == InitRecenter /\ [][NextRecenter]_vars

\* a key is handled without the clock moving: of the two keys of
\* SpecRecenter, the recenter key
RecenterStep == pc = "key" /\ hist'.keys = hist.keys + 1 /\ clock' = clock

\* C28: the recenter key, with a profile present and both smoothed angles
\* set, sets the profile's neutral yaw and roll to the smoothed angles and
\* leaves the rest of the profile, params, the cursor, the velocity and the
\* gesture state as they are; without a profile or before the first valid
\* sample it changes nothing.
C28_RecenterChangesOnlyNeutral ==
    [][RecenterStep =>
          /\ UNCHANGED <<params, cursor_x, cursor_y, v_cmd, gest, smoothed_yaw,
                         smoothed_roll, prev_time, last_ws_send, shutdown_flag,
                         connected_clients, calib_file, net, cal>>
          /\ IF calib # None /\ smoothed_yaw # None /\ smoothed_roll # None
             THEN /\ calib' # None
                  /\ DOMAIN Val(calib') = DOMAIN Val(calib)
                  /\ Val(calib').yaw["neutral"] = Val(smoothed_yaw)
                  /\ Val(calib').roll["neutral"] = Val(smoothed_roll)
                  /\ \A k \in StepSet \ {"neutral"} :
                        /\ Val(calib').yaw[k] = Val(calib).yaw[k]
                        /\ Val(calib').roll[k] = Val(calib).roll[k]
                  /\ Val(calib').rom_yaw = Val(calib).rom_yaw
                  /\ Val(calib').rom_roll = Val(calib).rom_roll
                  /\ Val(calib').deadzone_yaw = Val(calib).deadzone_yaw
                  /\ Val(calib').deadzone_roll = Val(calib).deadzone_roll
             ELSE calib' = calib]_vars

\* the neutral pose of the profile is no longer the one calibration measured,
\* the range of motion still is
C28_Witness ==
    /\ pc = "frame"
    /\ calib # None
    /\ Val(calib).yaw["neutral"] # 0
    /\ Val(calib).roll["neutral"] # 0
    /\ Val(calib).rom_yaw = 320
    /\ Val(calib).rom_roll = 240

-----------------------------------------------------------------------------
(* Frames before a profile is present (SpecMouth)                          *)

\* C29: a frame processed while no profile is present leaves the cursor where
\* it is and the velocity at (0, 0), whatever pose it shows; the gestures are
\* detected all the same: a mouth that opens outside the cooldown emits select
\* or click, and the detectors' state follows the frame.
C29_UncalibratedCursorAtRest ==
    [][(FrameStep /\ calib = None) =>
          /\ cursor_x' = cursor_x
          /\ cursor_y' = cursor_y
          /\ v_cmd' = <<0, 0>>
          /\ prev_mouth_open' = obs'.mouth
          /\ (obs'.mouth /\ ~obs.mouth /\ ~OnCooldown(prev_time')) =>
                (Sent("Select")' \/ Sent("Click")')]_vars

\* without a profile, a frame with the head tilted and the mouth opening has
\* emitted select and left the cursor at the centre
C29_Witness ==
    /\ pc = "key"
    /\ calib = None
    /\ obs.pose = <<Some(0), Some(-200)>>
    /\ smoothed_roll # None
    /\ Val(smoothed_roll) < 0
    /\ obs.mouth
    /\ Sent("Select")
    /\ cursor_x = (FRAME_W * 1000) \div 2
    /\ cursor_y = (FRAME_H * 1000) \div 2
    /\ v_cmd = <<0, 0>>

-----------------------------------------------------------------------------
(* The registry under connects, disconnects and broadcasts (SpecBroadcast) *)

\* C30: whenever main_loop is not in the middle of a broadcast, no consumer
\* whose send failed is in the registry (the registry holds the consumers that
\* connected and have neither disconnected nor failed a send); and a send is
\* only begun to a registered consumer whose sends have not failed.
C30_RegistryIsLive ==
    /\ [](pc # "send" => connected_clients \cap broadcast.failed = {})
    /\ [][(broadcast.at = None /\ broadcast'.at # None) =>
            /\ Val(broadcast'.at) \in connected_clients
            /\ Val(broadcast'.at) \notin broadcast.failed]_vars

-----------------------------------------------------------------------------
(* The start of the program, with and without a camera (SpecStartup)       *)
MaxIterStartup == 2             \* frames processed

InitStartup == pc = "start" /\ InitState /\ calib_file = None

FrameStartup ==
    /\ hist.iter < MaxIterStartup
    /\ \E mar \in {30, 50} :
          TickSending(TRUE, Some(0), Some(0), mar, 30, 30, 100, clock + 5, 0)

HandlersStartup == \E c \in {"c1", "c2"} : Connect(c) \/ Disconnect(c)

NextStartup ==
    \/ CameraFails
    \/ CameraOpens
    \/ FrameStartup
    \/ SendStep
    \/ KeyNone
    \/ KeyQuit
    \/ HandlersStartup
    \/ ServerStop

\* the event loop runs the server task once it can run, as in SpecShutdown
SpecStartup == InitStartup /\ [][NextStartup]_vars /\ WF_vars(ServerStop)

\* main_loop has returned without having processed a frame
CameraFailed == pc = "done" /\ hist.iter = 0

\* C31: a start at which the camera fails sets the shutdown flag and ends
\* main_loop with no frame processed and no message sent; nothing is processed
\* or sent afterwards, and the server task and with it the program end.
C31_CameraFailureEndsProgram ==
    /\ [][(pc = "start" /\ pc' # "frame") =>
             /\ pc' = "done"
             /\ shutdown_flag'
             /\ UNCHANGED <<ctl, gest, out, broadcast, hist>>]_vars
    /\ [](CameraFailed =>
             /\ shutdown_flag
             /\ out = <<>>
             /\ broadcast = Broadcast0)
    /\ [][CameraFailed => UNCHANGED <<pc, ctl, gest, out, broadcast, hist>>]_vars
    /\ (CameraFailed ~> (ws_task = "done" /\ pc = "done"))

\* the camera failed, a consumer connected before the server had stopped, and
\* the server has stopped and closed its connection
C31_Witness ==
    /\ CameraFailed
    /\ shutdown_flag
    /\ ws_task = "done"
    /\ connected_clients # {}
    /\ closed = connected_clients

-----------------------------------------------------------------------------
(* The cursor at an edge of the window (Spec)                              *)

\* C32: the velocity a frame stores is the one the slew gives, whether or not
\* the position was clamped; with the cursor at an edge, the velocity pointing
\* out of the window and the command still saturated in that direction, the
\* cursor stays at the edge and the velocity component stays non-zero.
C32_ClampKeepsVelocity ==
    [][(FrameStep /\ obs'.slew) =>
          LET xmax == (FRAME_W - 1) * 1000
              ymax == (FRAME_H - 1) * 1000
              tx == obs'.target[1]
              ty == obs'.target[2]
          IN  /\ v_cmd' = << Slew(v_cmd[1], tx, obs'.p.tau_vel, obs'.dt),
                             Slew(v_cmd[2], ty, obs'.p.tau_vel, obs'.dt) >>
              /\ (cursor_x = xmax /\ v_cmd[1] > 0 /\ tx > 0) =>
                    (cursor_x' = xmax /\ v_cmd'[1] > 0)
              /\ (cursor_x = 0 /\ v_cmd[1] < 0 /\ tx < 0) =>
                    (cursor_x' = 0 /\ v_cmd'[1] < 0)
              /\ (cursor_y = ymax /\ v_cmd[2] > 0 /\ ty > 0) =>
                    (cursor_y' = ymax /\ v_cmd'[2] > 0)
              /\ (cursor_y = 0 /\ v_cmd[2] < 0 /\ ty < 0) =>
                    (cursor_y' = 0 /\ v_cmd'[2] < 0)]_vars

\* a second frame in a row at the right edge with the head still turned: the
\* velocity has gone on growing towards its cap
C32_Witness ==
    /\ obs.slew
    /\ cursor_x = (FRAME_W - 1) * 1000
    /\ obs.target[1] > 0
    /\ obs.vprev[1] > 0
    /\ v_cmd[1] > obs.vprev[1]
    /\ RoundDiv(obs.vprev[1] * obs.dt, 100) < (FRAME_W * 1000) \div 2

-----------------------------------------------------------------------------
(* The handler's removal after a broadcast's (SpecBroadcast)               *)

\* C33: when the handler of a closed connection runs its removal, the consumer
\* is in the registry.
C33_HandlerFindsConsumer ==
    [][\A c \in closed \ closed' : c \in connected_clients]_vars

\* C34: from the beginning of a broadcast's loop over the registry to its end
\* the registry keeps its members, whatever connects or disconnects while a
\* send is awaited.
C34_RegistryConstantInBroadcast ==
    [][(pc = "send" /\ ~LeavesBroadcast) => connected_clients' = connected_clients]_vars

-----------------------------------------------------------------------------
(* Triple-blink detections and mode changes (SpecGesture)                  *)

\* the registered blinks at which the hold deadline was set: the third of
\* three within the window
Detections ==
    {i \in 3..Len(hist.blinks) :
        hist.blinks[i] - hist.blinks[i - 2] <= TRIPLE_BLINK_WINDOW}

\* C35: there are at most as many ModeChange events, and as many steps of the
\* mode index, as triple-blink detections, whatever frames follow a detection
\* while its hold lasts, frames without a face included.
C35_OneChangePerDetection ==
    /\ hist.modes <= Cardinality(Detections)
    /\ current_mode = hist.modes % 3

-----------------------------------------------------------------------------
(* Blinks in quick succession, the face in every frame (SpecQuick)         *)
MaxIterQuick == 7               \* frames processed

\* both eyes closed 0.05 s after the previous frame, or both eyes open 0.05 s
\* or 0.25 s after it
FramesQuick == { [ear |-> 10, dt |-> 5], [ear |-> 30, dt |-> 5], [ear |-> 30, dt |-> 25] }

InitQuick == InitLoop /\ calib_file = None

FaceQuick ==
    /\ hist.iter < MaxIterQuick
    /\ \E f \in FramesQuick :
          Tick(TRUE, Some(0), Some(0), 30, f.ear, f.ear, 100, clock + f.dt, 0, {})

NextQuick ==
    \/ FaceQuick
    \/ KeyNone

SpecQuick == InitQuick /\ [][NextQuick]_vars

\* C36: every ModeChange has three registered blinks of its own: after n mode
\* changes at least 3 * n blinks have been registered, so four blinks in quick
\* succession change the mode once.
C36_ThreeBlinksPerChange == Len(hist.blinks) >= 3 * hist.modes

-----------------------------------------------------------------------------
(* Closures of the eyes, in main_loop and in cace.py (SpecClosure)         *)
MaxIterClosure == 5             \* frames processed

\* both eyes closed, both open, the left or the right eye closed alone, or no
\* face in the frame
FramesClosure ==
    { [face |-> TRUE, l_ear |-> 10, r_ear |-> 10], [face |-> TRUE, l_ear |-> 30, r_ear |-> 30],
      [face |-> TRUE, l_ear |-> 10, r_ear |-> 30], [face |-> TRUE, l_ear |-> 30, r_ear |-> 10],
      [face |-> FALSE, l_ear |-> 0, r_ear |-> 0] }

InitClosure ==
    \/ InitLoop /\ calib_file = None
    \/ InitCace

FrameClosure ==
    /\ hist.iter < MaxIterClosure
    /\ \E f \in FramesClosure :
          Tick(f.face, Some(0), Some(0), 30, f.l_ear, f.r_ear, 100, clock + 5, 0, {})

FrameClosureCace ==
    /\ hist.iter < MaxIterClosure
    /\ \E f \in FramesClosure : CaceFrame(f.face, 30, f.l_ear, f.r_ear, 100, clock + 5)

NextClosure ==
    \/ FrameClosure
    \/ KeyNone
    \/ FrameClosureCace

SpecClosure == InitClosure /\ [][NextClosure]_vars

\* C37: a frame registers a blink, and exactly one, if it shows both eyes
\* closed and the last frame with a face before it did not; so a closure of
\* both eyes registers one blink however many frames it lasts and whether or
\* not the face is lost in between, and one eye closed alone registers none.
C37_OneBlinkPerClosure ==
    [][FrameStep =>
          Len(hist'.blinks) = Len(hist.blinks)
                + (IF obs'.face /\ hist'.shut /\ ~hist.shut THEN 1 ELSE 0)]_vars

\* both eyes closed, the face lost (the run counters start again), the face
\* found with the eyes still closed: main_loop has registered one blink
C37_Witness ==
    /\ pc = "key"
    /\ hist.iter = 3
    /\ Len(hist.blinks) = 1
    /\ hist.blinks[1] = START_TIME + 5
    /\ obs.face
    /\ hist.shut
    /\ l_run = 1
    /\ r_run = 1

-----------------------------------------------------------------------------
(* One opening of the mouth over several frames (SpecMouth)                *)

\* C38: from one frame that shows the mouth closed to the next, at most one
\* select or click event is emitted, whether or not the face is detected in
\* every frame in between and however long the mouth stays open.
C38_OneEventPerOpening == hist.gape <= 1


-----------------------------------------------------------------------------
(* The brows raised while the baseline is learned (SpecLearn)              *)
MaxRaised == 3                  \* frames with the brows raised while learning
MaxAfterLearn == 2              \* frames after the brow baseline is learned

\* the frames of the sample window that show the brows raised
Raised == { i \in 1..Len(brow_samples) : brow_samples[i] # 100 }

\* while the baseline is learned: a resting face; the brows raised, held over
\* consecutive frames 0.35 s apart; and, before that, at most once a frame
\* with the eyes closed or without a face
FramesLearning ==
    { [face |-> TRUE, ear |-> 30, brow |-> 100, dt |-> 3] }
    \cup (IF Cardinality(Raised) < MaxRaised
             /\ (Raised = {} \/ Len(brow_samples) \in Raised)
          THEN { [face |-> TRUE, ear |-> 30, brow |-> 130, dt |-> 35] }
          ELSE {})
    \cup (IF Undisturbed
          THEN { [face |-> TRUE, ear |-> 10, brow |-> 130, dt |-> 3],
                 [face |-> FALSE, ear |-> 0, brow |-> 0, dt |-> 3] }
          ELSE {})

InitLearn == InitLoop /\ calib_file = None

FrameLearn ==
    /\ brow_baseline = None
    /\ \E f \in FramesLearning :
          Tick(f.face, Some(0), Some(0), 30, f.ear, f.ear, f.brow, clock + f.dt, 0, {})

AfterLearn ==
    /\ brow_baseline # None
    /\ hist.iter < BROW_BASELINE_FRAMES + 1 + MaxAfterLearn
    /\ \E brow \in {100, 130} :
          Tick(TRUE, Some(0), Some(0), 30, 30, 30, brow, clock + 35, 0, {})

NextLearn ==
    \/ FrameLearn
    \/ AfterLearn
    \/ KeyNone

SpecLearn == InitLearn /\ [][NextLearn]_vars

\* C39: in a frame processed while fewer than BROW_BASELINE_FRAMES eyes-open
\* samples have been collected brow_up is false, no brow hold timer is started
\* and no Delete is emitted; so no Delete comes before the baseline is learned.
C39_NoDeleteBeforeBaseline ==
    [][(FrameStep /\ Len(brow_samples) < BROW_BASELINE_FRAMES) =>
          /\ ~obs'.brow
          /\ ~prev_brow_up'
          /\ brow_up_start_time' = None
          /\ ~brow_triggered'
          /\ ~Sent("Delete")']_vars

\* the brows have been raised over three frames, 0.7 s from the first to the
\* last, and the baseline is still being learned
C39_Witness ==
    /\ Len(brow_samples) < BROW_BASELINE_FRAMES
    /\ Len(brow_samples) >= 3
    /\ \A i \in Len(brow_samples) - 2 .. Len(brow_samples) : brow_samples[i] = 130
    /\ brow_baseline = None
    /\ obs.face /\ obs.eyes
    /\ ~obs.brow
    /\ pc = "key"

====
